---- MODULE Spec2Model ----
(***************************************************************************)
(* Comment toggling in the CodeMirror editors created by Thebe.            *)
(*                                                                         *)
(* A text is a sequence of one-character strings.  The editor buffer is a  *)
(* sequence of lines (texts without line breaks); line numbers and column  *)
(* offsets are 0-based as in CodeMirror, so line n is lines[n + 1].        *)
(***************************************************************************)
EXTENDS Integers, Sequences, FiniteSets, TLC

VARIABLES
    lines,      \* the editor buffer: cm.getLine(n) = lines[n + 1]
    sels,       \* cm.listSelections(): sequence of [anchor, head] ranges
    mode,       \* cm.getMode(): [name, lineComment]
    installed,  \* which function is CodeMirror.commands.toggleComment
    orig,       \* history: buffer and selections at the start
    pre,        \* history: buffer and selections before the last toggle
    n,          \* history: number of toggle key presses handled so far
    used,       \* history: the commentString the last toggle computed
    script,     \* which version of the page script runs
    cmGlobal,   \* window.CodeMirror is set
    inDom,      \* the .CodeMirror elements in the document
    configured, \* elements with dataset.commentToggleConfigured = 'true'
    extraKeys,  \* cm.getOption('extraKeys') of each element's editor
    theme,      \* cm.getOption('theme') of each element's editor
    keys0,      \* history: extraKeys and theme of each editor when created
    setOptions, \* history: calls of cm.setOption('extraKeys', ...) per editor
    observers,  \* MutationObservers started by setupCodeMirrorCommentToggle
    timeouts,   \* pending setTimeout(configureCodeMirrorInstance) per element
    sweeps,     \* pending setTimeout(configureAllCodeMirrorInstances, 2000)
    loads,      \* the calls of loadCodeMirrorCommentAddon
    addonLoaded,\* the flag of bootstrapThebe's interval watcher
    errors,     \* what console.error has been called for
    thebe,      \* the instance window.thebe.bootstrap resolves with
    thebeState, \* thebeState: the stored objects and the readiness flags
    boots,      \* the calls of bootstrapThebe
    statusWidget, \* the .thebe-status element and the debounce timer
    lastUIStatus, \* lastUIStatus of updateUIForStatus
    ui,         \* the controls, run buttons and action bar, and the timers
                \* that keep them
    nav,        \* the navbar's search for the .thebe-status elements
    act,        \* the calls of thebeActions that reach the kernel
    bar,        \* the navbar element: its classes, scroll state and status text
    cfg,        \* the last call of configureCodeMirrorInstance that could throw
    btn,        \* the [data-thebe-activate] button
    activated,  \* .thebe-controls carries the class 'activated'
    listeners,  \* the scripts whose click listener is on the button
    insideControls, \* btn.closest('.thebe-controls') is not null
    thebeAPI,   \* window.thebeAPI is defined
    clicks      \* where each click listener's async handler stands

\* the editor under the key
editorVars == <<lines, sels, mode, orig, pre, n, used>>
\* the page: the script's globals, the document's editors, the timers
pageVars == <<script, cmGlobal, inDom, configured, extraKeys, theme, keys0,
              setOptions, observers, timeouts, sweeps, loads, addonLoaded,
              errors>>

\* the actions on the kernel, the navbar element, the last key-map setup
extraVars == <<act, bar, cfg>>

\* the activation of Thebe: the button, bootstrapThebe, the readiness state
bootCore == <<thebe, thebeState, boots, statusWidget, lastUIStatus, ui, nav,
              btn, activated, listeners, insideControls, thebeAPI, clicks>>

bootVars == <<extraVars, bootCore>>

vars == <<editorVars, installed, pageVars, bootVars>>

(***************************************************************************)
(* Bounds of the model.                                                    *)
(***************************************************************************)
\* Length of the text an editor is loaded with (its lines joined by "\n").
MaxText == 4
\* Number of toggle key presses in one run.
MaxToggles == 2

(***************************************************************************)
(* Characters and string primitives of JavaScript used by the code.        *)
(***************************************************************************)
NL == "\n"
\* What /\s/ matches and String.prototype.trim() strips inside one line.
WS == {" ", "\t"}

Max(a, b) == IF a > b THEN a ELSE b

\* text.match(/^\s*/)[0].length
IndentLen(text) ==
    CHOOSE k \in 0..Len(text) :
        /\ \A i \in 1..k : text[i] \in WS
        /\ (k = Len(text) \/ text[k + 1] \notin WS)

\* text.match(/^\s*/)[0]
Indent(text) == SubSeq(text, 1, IndentLen(text))

\* text.slice(k)
Slice(text, k) == SubSeq(text, k + 1, Len(text))

\* number of whitespace characters at the end of the text
TrailLen(text) ==
    CHOOSE k \in 0..Len(text) :
        /\ \A i \in (Len(text) - k + 1)..Len(text) : text[i] \in WS
        /\ (k = Len(text) \/ text[Len(text) - k] \notin WS)

\* text.trim()
Trim(text) ==
    IF IndentLen(text) = Len(text) THEN <<>>
    ELSE SubSeq(text, IndentLen(text) + 1, Len(text) - TrailLen(text))

\* text.startsWith(prefix)
StartsWith(text, prefix) ==
    /\ Len(prefix) <= Len(text)
    /\ SubSeq(text, 1, Len(prefix)) = prefix

(***************************************************************************)
(* CodeMirror document primitives.                                         *)
(***************************************************************************)
\* cm.getLine(lineNum)
getLine(buf, lineNum) == buf[lineNum + 1]

\* cm.replaceRange(newText, {line, ch: 0}, {line, ch: text.length}):
\* every call in the code replaces one whole line by a text without breaks.
replaceRange(buf, newText, lineNum) == [buf EXCEPT ![lineNum + 1] = newText]

\* order of two positions (CodeMirror's cmp)
PosLE(p, q) == p.line < q.line \/ (p.line = q.line /\ p.ch <= q.ch)

\* selection.from() and selection.to()
SelFrom(sel) == IF PosLE(sel.anchor, sel.head) THEN sel.anchor ELSE sel.head
SelTo(sel) == IF PosLE(sel.anchor, sel.head) THEN sel.head ELSE sel.anchor

Pos(l, c) == [line |-> l, ch |-> c]

(***************************************************************************)
(* The self-contained command of createCommentToggleCommand.               *)
(***************************************************************************)
Hash == <<"#">>
Slashes == <<"/", "/">>
Dashes == <<"-", "-">>
HtmlOpen == <<"<", "!", "-", "-">>
CssOpen == <<"/", "*">>
\* the object literal modeMap
modeMap ==
    [ python |-> Hash, javascript |-> Slashes, typescript |-> Slashes,
      jsx |-> Slashes, tsx |-> Slashes, java |-> Slashes, c |-> Slashes,
      cpp |-> Slashes, csharp |-> Slashes, ruby |-> Hash, shell |-> Hash,
      bash |-> Hash, yaml |-> Hash, r |-> Hash, julia |-> Hash,
      sql |-> Dashes, lua |-> Dashes, haskell |-> Dashes, rust |-> Slashes,
      go |-> Slashes, swift |-> Slashes, kotlin |-> Slashes,
      scala |-> Slashes, php |-> Slashes, perl |-> Hash, html |-> HtmlOpen,
      xml |-> HtmlOpen, css |-> CssOpen, scss |-> Slashes, less |-> Slashes,
      markdown |-> HtmlOpen ]

\* name.toLowerCase() on the mode names of the model
toLowerCase(name) ==
    CASE name = "Python" -> "python"
      [] name = "JavaScript" -> "javascript"
      [] name = "SQL" -> "sql"
      [] OTHER -> name

\* getCommentString(mode); a mode without a name has name ""
getCommentString(m) ==
    LET modeName == toLowerCase(m.name)
    IN  IF modeName \in DOMAIN modeMap THEN modeMap[modeName] ELSE Hash

\* isCommented(text, commentString)
isCommented(text, commentString) == StartsWith(Trim(text), commentString)

\* text.trim() is truthy
NonBlank(text) == Trim(text) # <<>>

\* addCommentToLine as it would be without its first check
addCommentToLine_NoBlankCheck(buf, lineNum, commentString) ==
    LET text == getLine(buf, lineNum)
        indent == Indent(text)
        newText == indent \o commentString \o <<" ">> \o Slice(text, Len(indent))
    IN  [buf |-> replaceRange(buf, newText, lineNum),
         delta |-> Len(commentString) + 1]

\* addCommentToLine as it would be if it put the marker at column 0
addCommentToLine_AtColumn0(buf, lineNum, commentString) ==
    LET text == getLine(buf, lineNum)
    IN  IF ~NonBlank(text)
        THEN [buf |-> buf, delta |-> 0]
        ELSE [buf |-> replaceRange(buf, commentString \o <<" ">> \o text, lineNum),
              delta |-> Len(commentString) + 1]

\* addCommentToLine as it would be if it left a line that already starts
\* with the marker alone
addCommentToLine_SkipCommented(buf, lineNum, commentString) ==
    LET text == getLine(buf, lineNum)
        indent == Indent(text)
        newText == indent \o commentString \o <<" ">> \o Slice(text, Len(indent))
    IN  IF ~NonBlank(text) \/ isCommented(text, commentString)
        THEN [buf |-> buf, delta |-> 0]
        ELSE [buf |-> replaceRange(buf, newText, lineNum),
              delta |-> Len(commentString) + 1]

\* addCommentToLine: the buffer after the call and the number it returns
addCommentToLine(buf, lineNum, commentString) ==
    LET text == getLine(buf, lineNum)
        indent == Indent(text)
        content == Slice(text, Len(indent))
        commentWithSpace == commentString \o <<" ">>
        newText == indent \o commentWithSpace \o content
    IN  IF ~NonBlank(text)
        THEN [buf |-> buf, delta |-> 0]
        ELSE [buf |-> replaceRange(buf, newText, lineNum),
              delta |-> Len(commentWithSpace)]

\* the replace of removeCommentFromLine as it would be if the pattern
\* repeated the marker group: every leading marker goes
RECURSIVE StripComment_AllMarkers(_, _)
StripComment_AllMarkers(text, commentString) ==
    LET rest == Slice(text, IndentLen(text))
        after == Slice(rest, Len(commentString))
        next == Indent(text) \o
                (IF after # <<>> /\ after[1] \in WS THEN Slice(after, 1)
                 ELSE after)
    IN  IF StartsWith(rest, commentString)
        THEN StripComment_AllMarkers(next, commentString)
        ELSE text

\* the replace of removeCommentFromLine as it would be with \s* for \s?:
\* all the whitespace after the marker goes
StripComment_AllSpaces(text, commentString) ==
    LET rest == Slice(text, IndentLen(text))
        after == Slice(rest, Len(commentString))
    IN  IF StartsWith(rest, commentString)
        THEN Indent(text) \o Slice(after, IndentLen(after))
        ELSE text

\* the replace of removeCommentFromLine as it would be without the \s? of the
\* pattern: the space after the marker stays
StripComment_KeepSpace(text, commentString) ==
    LET rest == Slice(text, IndentLen(text))
    IN  IF StartsWith(rest, commentString)
        THEN Indent(text) \o Slice(rest, Len(commentString))
        ELSE text

\* text.replace(new RegExp('^(\\s*)' + escaped + '\\s?'), '$1'): the marker is
\* escaped, so it matches literally; \s* is greedy and no marker begins with
\* whitespace, so the group is the whole indentation.
StripComment(text, commentString) ==
    LET k == IndentLen(text)
        rest == Slice(text, k)
        after == Slice(rest, Len(commentString))
    IN  IF StartsWith(rest, commentString)
        THEN Indent(text) \o
             (IF after # <<>> /\ after[1] \in WS THEN Slice(after, 1) ELSE after)
        ELSE text

\* removeCommentFromLine: the buffer after the call and the number it returns
removeCommentFromLine(buf, lineNum, commentString) ==
    LET text == getLine(buf, lineNum)
        newText == StripComment(text, commentString)
    IN  IF newText # text
        THEN [buf |-> replaceRange(buf, newText, lineNum),
              delta |-> -(Len(text) - Len(newText))]
        ELSE [buf |-> buf, delta |-> 0]

\* shouldCommentRange as it would be if it asked for every non-blank line
\* to be uncommented
shouldCommentRange_All(buf, startLine, endLine, commentString) ==
    \A line \in startLine..endLine :
        NonBlank(getLine(buf, line)) =>
            ~isCommented(getLine(buf, line), commentString)

\* shouldCommentRange(cm, startLine, endLine, commentString)
shouldCommentRange(buf, startLine, endLine, commentString) ==
    \E line \in startLine..endLine :
        /\ NonBlank(getLine(buf, line))
        /\ ~isCommented(getLine(buf, line), commentString)

\* toggleCommentForLine as it would be without its isCommented branch
toggleCommentForLine_AlwaysAdd(buf, lineNum, cursorCh, commentString) ==
    LET r == addCommentToLine(buf, lineNum, commentString)
        newCursor == Pos(lineNum, Max(0, cursorCh + r.delta))
    IN  [buf |-> r.buf, sel |-> [anchor |-> newCursor, head |-> newCursor]]

\* toggleCommentForLine as it would be without Math.max(0, ...)
toggleCommentForLine_NoClamp(buf, lineNum, cursorCh, commentString) ==
    LET text == getLine(buf, lineNum)
        r == IF isCommented(text, commentString)
             THEN removeCommentFromLine(buf, lineNum, commentString)
             ELSE IF NonBlank(text)
                  THEN addCommentToLine(buf, lineNum, commentString)
                  ELSE [buf |-> buf, delta |-> 0]
        newCursor == Pos(lineNum, cursorCh + r.delta)
    IN  [buf |-> r.buf, sel |-> [anchor |-> newCursor, head |-> newCursor]]

\* toggleCommentForLine: the buffer after the call and the cursor it returns
toggleCommentForLine(buf, lineNum, cursorCh, commentString) ==
    LET text == getLine(buf, lineNum)
        r == IF isCommented(text, commentString)
             THEN removeCommentFromLine(buf, lineNum, commentString)
             ELSE IF NonBlank(text)
                  THEN addCommentToLine(buf, lineNum, commentString)
                  ELSE [buf |-> buf, delta |-> 0]
        newCursor == Pos(lineNum, Max(0, cursorCh + r.delta))
    IN  [buf |-> r.buf, sel |-> [anchor |-> newCursor, head |-> newCursor]]

\* the for loop of toggleCommentForSelection over startLine..endLine: the
\* buffer and the lineDeltas object after the lines line..endLine are done
RECURSIVE ApplyToLines(_, _, _, _, _, _)
\* the loop as it would be with line < endLine as its condition
ApplyToLines_SkipLast(buf, deltas, line, endLine, shouldComment, commentString) ==
    IF line >= endLine THEN [buf |-> buf, deltas |-> deltas]
    ELSE LET r == IF shouldComment
                  THEN addCommentToLine(buf, line, commentString)
                  ELSE removeCommentFromLine(buf, line, commentString)
         IN  ApplyToLines(r.buf, [deltas EXCEPT ![line] = r.delta],
                          line + 1, endLine, shouldComment, commentString)

\* the loop as it would be with line <= endLine + 1 as its condition
ApplyToLines_PastEnd(buf, deltas, line, endLine, shouldComment, commentString) ==
    IF line > endLine + 1 \/ line >= Len(buf)
    THEN [buf |-> buf, deltas |-> deltas]
    ELSE LET r == IF shouldComment
                  THEN addCommentToLine(buf, line, commentString)
                  ELSE removeCommentFromLine(buf, line, commentString)
         IN  ApplyToLines(r.buf, [deltas EXCEPT ![line] = r.delta],
                          line + 1, endLine, shouldComment, commentString)

ApplyToLines(buf, deltas, line, endLine, shouldComment, commentString) ==
    IF line > endLine THEN [buf |-> buf, deltas |-> deltas]
    ELSE LET r == IF shouldComment
                  THEN addCommentToLine(buf, line, commentString)
                  ELSE removeCommentFromLine(buf, line, commentString)
         IN  ApplyToLines(r.buf, [deltas EXCEPT ![line] = r.delta],
                          line + 1, endLine, shouldComment, commentString)

\* toggleCommentForSelection: the buffer after the call and the selection
\* it returns
toggleCommentForSelection(buf, selection, commentString) ==
    LET from == SelFrom(selection)
        to == SelTo(selection)
        anchor == selection.anchor
        head == selection.head
        shouldComment ==
            shouldCommentRange(buf, from.line, to.line, commentString)
        \* lineDeltas[l] || 0 is 0 for a line outside the range
        r == ApplyToLines(buf, [l \in 0..(Len(buf) - 1) |-> 0], from.line,
                          to.line, shouldComment, commentString)
    IN  IF from.line = to.line /\ from.ch = to.ch
        THEN toggleCommentForLine(buf, from.line, from.ch, commentString)
        ELSE [buf |-> r.buf,
              sel |-> [anchor |-> Pos(anchor.line,
                                      Max(0, anchor.ch + r.deltas[anchor.line])),
                       head |-> Pos(head.line,
                                    Max(0, head.ch + r.deltas[head.line]))]]

\* What CodeMirror does to a selection endpoint when replaceRange replaces
\* its whole line: the endpoint moves to the end of the inserted text.
AdjustForChange(buf, touched, pos) ==
    IF pos.line \in touched THEN Pos(pos.line, Len(getLine(buf, pos.line)))
    ELSE pos

AdjustSelections(buf, touched, selections) ==
    [k \in 1..Len(selections) |->
        [anchor |-> AdjustForChange(buf, touched, selections[k].anchor),
         head |-> AdjustForChange(buf, touched, selections[k].head)]]

\* clipPos of CodeMirror: a column beyond the end of its line is the end of
\* the line (the commands never change the number of lines)
clipPos(buf, pos) ==
    IF pos.ch > Len(getLine(buf, pos.line))
    THEN Pos(pos.line, Len(getLine(buf, pos.line)))
    ELSE pos

\* ranges.sort by from() in CodeMirror's normalizeSelection (stable)
RECURSIVE InsertRange(_, _)
InsertRange(sorted, r) ==
    IF sorted = <<>> THEN <<r>>
    ELSE LET last == sorted[Len(sorted)]
         IN  IF PosLE(SelFrom(last), SelFrom(r)) THEN Append(sorted, r)
             ELSE Append(InsertRange(SubSeq(sorted, 1, Len(sorted) - 1), r),
                         last)

RECURSIVE SortRanges(_)
SortRanges(ranges) ==
    IF ranges = <<>> THEN <<>>
    ELSE InsertRange(SortRanges(SubSeq(ranges, 1, Len(ranges) - 1)),
                     ranges[Len(ranges)])

\* the loop of normalizeSelection: a range that starts at or before the end
\* of the one before it is merged with it
RECURSIVE MergeRanges(_, _)
MergeRanges(done, rest) ==
    IF rest = <<>> THEN done
    ELSE IF done = <<>> THEN MergeRanges(<<Head(rest)>>, Tail(rest))
    ELSE LET prev == done[Len(done)]
             cur == Head(rest)
             from == SelFrom(prev)
             to == IF PosLE(SelTo(cur), SelTo(prev)) THEN SelTo(prev)
                   ELSE SelTo(cur)
             inv == IF prev.anchor = prev.head
                    THEN PosLE(cur.head, cur.anchor)
                    ELSE PosLE(prev.head, prev.anchor)
             merged == IF inv THEN [anchor |-> to, head |-> from]
                       ELSE [anchor |-> from, head |-> to]
         IN  IF PosLE(SelFrom(cur), SelTo(prev))
             THEN MergeRanges(
                      Append(SubSeq(done, 1, Len(done) - 1), merged),
                      Tail(rest))
             ELSE MergeRanges(Append(done, cur), Tail(rest))

normalizeSelection(ranges) == MergeRanges(<<>>, SortRanges(ranges))

\* cm.setSelections(ranges): the ranges clipped to the document, normalized
setSelections(buf, ranges) ==
    normalizeSelection(
        [k \in 1..Len(ranges) |->
            [anchor |-> clipPos(buf, ranges[k].anchor),
             head |-> clipPos(buf, ranges[k].head)]])

\* the loop of toggleComment over cm.listSelections(): the selections were
\* read before the first edit, each is applied to the buffer as edited so far
RECURSIVE ToggleSelections(_, _, _, _, _)
ToggleSelections(buf, selections, i, newSelections, commentString) ==
    IF i > Len(selections) THEN [buf |-> buf, sels |-> newSelections]
    ELSE LET r == toggleCommentForSelection(buf, selections[i], commentString)
         IN  ToggleSelections(r.buf, selections, i + 1,
                              Append(newSelections, r.sel), commentString)

\* toggleComment(cm) as returned by createCommentToggleCommand, ending in
\* cm.setSelections(newSelections)
toggleComment(buf, selections, m) ==
    LET r == ToggleSelections(buf, selections, 1, <<>>, getCommentString(m))
    IN  [buf |-> r.buf, sels |-> setSelections(r.buf, r.sels)]

(***************************************************************************)
(* The manual fallback of implementManualCommentToggle.                    *)
(***************************************************************************)
\* mode.lineComment || (mode.name === 'python' ? '#' : '//'); an absent
\* lineComment is the empty text, which is falsy as well
manualCommentString(m) ==
    IF m.lineComment # <<>> THEN m.lineComment
    ELSE IF m.name = "python" THEN Hash ELSE Slashes

\* allCommented as it would be if one commented line were enough
manualAllCommented_Any(buf, startLine, endLine, commentString) ==
    \E i \in startLine..endLine :
        StartsWith(Trim(getLine(buf, i)), commentString)

\* allCommented after the first loop over startLine..endLine
manualAllCommented(buf, startLine, endLine, commentString) ==
    \A i \in startLine..endLine :
        LET line == getLine(buf, i)
        IN  ~(Trim(line) # <<>> /\ ~StartsWith(Trim(line), commentString))

\* leadingWhitespace + commentString + ' ' + line.trim()
manualAddComment(line, commentString) ==
    Indent(line) \o commentString \o <<" ">> \o Trim(line)

\* the second loop over startLine..endLine: the buffer and the set of lines
\* that replaceRange was called on, after the lines i..endLine are done
RECURSIVE manualApplyToLines(_, _, _, _, _, _)
manualApplyToLines(buf, touched, i, endLine, allCommented, commentString) ==
    IF i > endLine THEN [buf |-> buf, touched |-> touched]
    ELSE LET line == getLine(buf, i)
         IN  IF allCommented
             THEN manualApplyToLines(
                      replaceRange(buf, StripComment(line, commentString), i),
                      touched \cup {i}, i + 1, endLine, allCommented,
                      commentString)
             ELSE IF Trim(line) # <<>>
             THEN manualApplyToLines(
                      replaceRange(buf, manualAddComment(line, commentString), i),
                      touched \cup {i}, i + 1, endLine, allCommented,
                      commentString)
             ELSE manualApplyToLines(buf, touched, i + 1, endLine,
                                     allCommented, commentString)

\* the loop over the selections read before the operation
RECURSIVE manualToggleSelections(_, _, _, _, _)
manualToggleSelections(buf, touched, selections, k, commentString) ==
    IF k > Len(selections) THEN [buf |-> buf, touched |-> touched]
    ELSE LET startLine == SelFrom(selections[k]).line
             endLine == SelTo(selections[k]).line
             r == manualApplyToLines(
                      buf, touched, startLine, endLine,
                      manualAllCommented(buf, startLine, endLine, commentString),
                      commentString)
         IN  manualToggleSelections(r.buf, r.touched, selections, k + 1,
                                    commentString)

\* CodeMirror.commands.toggleComment as set by implementManualCommentToggle
manualToggleComment(buf, selections, m) ==
    LET r == manualToggleSelections(buf, {}, selections, 1,
                                    manualCommentString(m))
    IN  [buf |-> r.buf,
         sels |-> normalizeSelection(
                      AdjustSelections(r.buf, r.touched, selections))]

(***************************************************************************)
(* The calls a toggle makes on the editor, in order, each with the buffer  *)
(* after it: cm.operation entering and leaving its callback, replaceRange, *)
(* setSelections.                                                          *)
(***************************************************************************)
Call(fn, buf) == [fn |-> fn, buf |-> buf]

\* the replaceRange calls of the for loop of toggleCommentForSelection;
\* addCommentToLine and removeCommentFromLine call replaceRange exactly when
\* they change the line
RECURSIVE ApplyToLinesCalls(_, _, _, _, _)
ApplyToLinesCalls(buf, line, endLine, shouldComment, commentString) ==
    IF line > endLine THEN <<>>
    ELSE LET r == IF shouldComment
                  THEN addCommentToLine(buf, line, commentString)
                  ELSE removeCommentFromLine(buf, line, commentString)
         IN  (IF r.buf # buf THEN <<Call("replaceRange", r.buf)>> ELSE <<>>)
             \o ApplyToLinesCalls(r.buf, line + 1, endLine, shouldComment,
                                  commentString)

\* the replaceRange calls of toggleCommentForSelection
toggleCommentForSelectionCalls(buf, selection, commentString) ==
    LET from == SelFrom(selection)
        to == SelTo(selection)
        r == toggleCommentForLine(buf, from.line, from.ch, commentString)
    IN  IF from.line = to.line /\ from.ch = to.ch
        THEN IF r.buf # buf THEN <<Call("replaceRange", r.buf)>> ELSE <<>>
        ELSE ApplyToLinesCalls(
                 buf, from.line, to.line,
                 shouldCommentRange(buf, from.line, to.line, commentString),
                 commentString)

RECURSIVE ToggleSelectionsCalls(_, _, _, _)
ToggleSelectionsCalls(buf, selections, i, commentString) ==
    IF i > Len(selections) THEN <<>>
    ELSE toggleCommentForSelectionCalls(buf, selections[i], commentString)
         \o ToggleSelectionsCalls(
                toggleCommentForSelection(buf, selections[i],
                                          commentString).buf,
                selections, i + 1, commentString)

\* the calls of toggleComment as they would be without cm.operation
toggleCommentCalls_NoOperation(buf, selections, m) ==
    LET commentString == getCommentString(m)
        r == ToggleSelections(buf, selections, 1, <<>>, commentString)
    IN  ToggleSelectionsCalls(buf, selections, 1, commentString)
        \o (IF Len(r.sels) > 0 THEN <<Call("setSelections", r.buf)>>
            ELSE <<>>)

\* the calls of toggleComment(cm) of createCommentToggleCommand
toggleCommentCalls(buf, selections, m) ==
    LET commentString == getCommentString(m)
        r == ToggleSelections(buf, selections, 1, <<>>, commentString)
    IN  <<Call("operation", buf)>>
        \o ToggleSelectionsCalls(buf, selections, 1, commentString)
        \o (IF Len(r.sels) > 0 THEN <<Call("setSelections", r.buf)>>
            ELSE <<>>)
        \o <<Call("endOperation", r.buf)>>

\* the replaceRange calls of the second loop of the manual fallback
RECURSIVE manualApplyToLinesCalls(_, _, _, _, _)
manualApplyToLinesCalls(buf, i, endLine, allCommented, commentString) ==
    IF i > endLine THEN <<>>
    ELSE LET r == manualApplyToLines(buf, {}, i, i, allCommented,
                                     commentString)
         IN  (IF i \in r.touched THEN <<Call("replaceRange", r.buf)>>
              ELSE <<>>)
             \o manualApplyToLinesCalls(r.buf, i + 1, endLine, allCommented,
                                        commentString)

RECURSIVE manualToggleSelectionsCalls(_, _, _, _)
manualToggleSelectionsCalls(buf, selections, k, commentString) ==
    IF k > Len(selections) THEN <<>>
    ELSE LET startLine == SelFrom(selections[k]).line
             endLine == SelTo(selections[k]).line
             allCommented ==
                 manualAllCommented(buf, startLine, endLine, commentString)
         IN  manualApplyToLinesCalls(buf, startLine, endLine, allCommented,
                                     commentString)
             \o manualToggleSelectionsCalls(
                    manualApplyToLines(buf, {}, startLine, endLine,
                                       allCommented, commentString).buf,
                    selections, k + 1, commentString)

\* the calls of CodeMirror.commands.toggleComment of the manual fallback
manualToggleCommentCalls(buf, selections, m) ==
    LET commentString == manualCommentString(m)
    IN  <<Call("operation", buf)>>
        \o manualToggleSelectionsCalls(buf, selections, 1, commentString)
        \o <<Call("endOperation",
                  manualToggleSelections(buf, {}, selections, 1,
                                         commentString).buf)>>

\* What the editor shows while the calls run: CodeMirror updates its display
\* and fires its change events when the outermost operation ends; a call
\* outside any operation is an operation of its own.
RECURSIVE Rendered(_, _)
Rendered(calls, depth) ==
    IF calls = <<>> THEN <<>>
    ELSE LET c == Head(calls)
             d == IF c.fn = "operation" THEN depth + 1
                  ELSE IF c.fn = "endOperation" THEN depth - 1
                  ELSE depth
         IN  (IF d = 0 THEN <<c.buf>> ELSE <<>>) \o Rendered(Tail(calls), d)

(***************************************************************************)
(* The copies that work on the selected text: the console fix of           *)
(* QUICK_FIX.md and the inline last resort of configureCodeMirrorInstance. *)
(* Both read the primary selection.                                        *)
(***************************************************************************)
\* cm.getSelection().split('\n'): the selected part of each line from..to
SelectedPieces(buf, from, to) ==
    [k \in 1..(to.line - from.line + 1) |->
        LET text == getLine(buf, from.line + k - 1)
            first == IF k = 1 THEN from.ch ELSE 0
            last == IF from.line + k - 1 = to.line THEN to.ch ELSE Len(text)
        IN  SubSeq(text, first + 1, last)]

\* cm.replaceSelection(pieces.join('\n')) for a text with as many lines as
\* the selection has
replaceSelection(buf, from, to, pieces) ==
    [i \in 1..Len(buf) |->
        LET l == i - 1
            before == IF l = from.line THEN SubSeq(buf[i], 1, from.ch) ELSE <<>>
            after == IF l = to.line THEN Slice(buf[i], to.ch) ELSE <<>>
        IN  IF l < from.line \/ l > to.line THEN buf[i]
            ELSE before \o pieces[l - from.line + 1] \o after]

\* the cursor replaceSelection leaves at the end of the inserted text
CursorAfterReplace(from, to, pieces) ==
    LET c == Pos(to.line,
                 Len(pieces[Len(pieces)]) +
                     (IF from.line = to.line THEN from.ch ELSE 0))
    IN  <<[anchor |-> c, head |-> c]>>

\* the cursor replaceRange of a whole line leaves at the end of that line
CursorAtLineEnd(buf, lineNum) ==
    <<[anchor |-> Pos(lineNum, Len(getLine(buf, lineNum))),
       head |-> Pos(lineNum, Len(getLine(buf, lineNum)))]>>

\* const comment = mode.name === 'python' ? '# ' : '// ', trimmed
quickFixMarker(m) == IF m.name = "python" THEN Hash ELSE Slashes

\* l.replace(new RegExp('^\\s*' + marker + '\\s?'), ''): no group, so the
\* indentation goes with the marker
quickFixStrip(l, marker) ==
    LET after == Slice(l, IndentLen(l) + Len(marker))
    IN  IF after # <<>> /\ after[1] \in WS THEN Slice(after, 1) ELSE after

\* the map over sel.split('\n')
quickFixTogglePiece(l, marker) ==
    IF StartsWith(Trim(l), marker) THEN quickFixStrip(l, marker)
    ELSE marker \o <<" ">> \o l

\* the toggleComment of the console fix
quickFixToggleComment(buf, selections, m) ==
    LET from == SelFrom(selections[1])
        to == SelTo(selections[1])
        cursor == selections[1].head
        line == getLine(buf, cursor.line)
        marker == quickFixMarker(m)
        pieces == SelectedPieces(buf, from, to)
        toggledPieces ==
            [k \in 1..Len(pieces) |-> quickFixTogglePiece(pieces[k], marker)]
        \* line.replace(/^(\s*)/, '$1' + comment) also marks a blank line
        toggledLine ==
            IF StartsWith(Trim(line), marker) THEN StripComment(line, marker)
            ELSE Indent(line) \o marker \o <<" ">> \o Slice(line, IndentLen(line))
        newBuf == replaceRange(buf, toggledLine, cursor.line)
    IN  IF from # to
        THEN [buf |-> replaceSelection(buf, from, to, toggledPieces),
              sels |-> CursorAfterReplace(from, to, toggledPieces)]
        ELSE [buf |-> newBuf, sels |-> CursorAtLineEnd(newBuf, cursor.line)]

\* mode.lineComment || (mode.name === 'python' ? '# ' : '// ')
inlineCommentString(m) ==
    IF m.lineComment # <<>> THEN m.lineComment
    ELSE IF m.name = "python" THEN Hash \o <<" ">> ELSE Slashes \o <<" ">>

\* the first piece of: isCommented ? sel.replace(/^marker/, '') : marker + sel
inlineToggleText(pieces, commentString) ==
    [pieces EXCEPT ![1] =
        IF StartsWith(pieces[1], commentString)
        THEN Slice(pieces[1], Len(commentString))
        ELSE commentString \o pieces[1]]

\* the else branch of toggleFn in configureCodeMirrorInstance; sel is the
\* selected text or, without a selection, the text of the cursor line, which
\* replaceSelection then inserts at the cursor
inlineToggleComment(buf, selections, m) ==
    LET from == SelFrom(selections[1])
        to == SelTo(selections[1])
        cursor == selections[1].head
        line == getLine(buf, cursor.line)
        commentString == inlineCommentString(m)
        pieces == IF from # to THEN SelectedPieces(buf, from, to) ELSE <<line>>
        newPieces == inlineToggleText(pieces, commentString)
        \* reached with sel = '', that is on an empty line without selection
        newLine ==
            IF StartsWith(Trim(line), Trim(commentString))
            THEN StripComment(line, Trim(commentString))
            ELSE Indent(line) \o commentString \o Slice(line, IndentLen(line))
        newBuf == replaceRange(buf, newLine, cursor.line)
    IN  IF from # to \/ line # <<>>
        THEN [buf |-> replaceSelection(buf, from, to, newPieces),
              sels |-> CursorAfterReplace(from, to, newPieces)]
        ELSE [buf |-> newBuf, sels |-> CursorAtLineEnd(newBuf, cursor.line)]

(***************************************************************************)
(* The page around the editors: the editors Thebe renders, the loading of  *)
(* the comment add-on, and the configuration of each editor's key map.     *)
(* Two versions of the page script exist: assets/js/thebe-config.js, which *)
(* loads the add-on and falls back to the manual toggle, and the later one *)
(* with the self-contained command.                                        *)
(***************************************************************************)
\* Number of editors Thebe renders on the page.
MaxEditors == 2
\* Number of calls of loadCodeMirrorCommentAddon in one run.
MaxLoads == 2
\* Number of times the key map of one editor is set in one run.
MaxSetOptions == 2

Editors == 1..MaxEditors
Loads == 1..MaxLoads
Scripts == {"thebeConfig", "selfContained"}

\* the two shortcuts of the comment toggle
ToggleKeys == {"Cmd-/", "Ctrl-/"}
\* a key bound to the name of a command, as in 'Cmd-/': 'toggleComment'
CommandName(name) == [kind |-> "command", name |-> name]
\* a key bound to the function toggleFn
toggleFn == [kind |-> "function", name |-> "toggleFn"]

\* key maps: cm.getOption('extraKeys') is null or an object
NoKeys == [k \in {} |-> toggleFn]
NullKeys == [null |-> TRUE, keys |-> NoKeys]
\* the key maps an editor can have when Thebe has created it
InitialExtraKeys ==
    { NullKeys,
      [null |-> FALSE,
       keys |-> [k \in {"Shift-Enter", "Cmd-/"} |->
                    IF k = "Shift-Enter" THEN CommandName("execute")
                    ELSE CommandName("undo")]] }

\* the new key map as it would be without the spread of currentExtraKeys
withToggleKeys_NoSpread(currentExtraKeys, binding) ==
    [null |-> FALSE, keys |-> [k \in ToggleKeys |-> binding]]

\* { ...currentExtraKeys, 'Cmd-/': binding, 'Ctrl-/': binding } with
\* currentExtraKeys = cm.getOption('extraKeys') || {}
withToggleKeys(currentExtraKeys, binding) ==
    [null |-> FALSE,
     keys |-> [k \in DOMAIN currentExtraKeys.keys \cup ToggleKeys |->
                  IF k \in ToggleKeys THEN binding
                  ELSE currentExtraKeys.keys[k]]]

\* The operators below work on a record pg of the page's state:
\* installed, cmGlobal, configured, extraKeys, setOptions.
\* cm.setOption('extraKeys', keyMap) on the editor of element e
setOption(pg, e, keyMap) ==
    [pg EXCEPT !.extraKeys[e] = keyMap, !.setOptions[e] = @ + 1]

\* implementManualCommentToggle() as it would be if it installed nothing
implementManualCommentToggle_Nothing(pg) == pg

\* implementManualCommentToggle()
implementManualCommentToggle(pg) ==
    IF ~pg.cmGlobal THEN pg ELSE [pg EXCEPT !.installed = "manual"]

\* configureCodeMirrorInstance(element) of assets/js/thebe-config.js
configureInstanceThebeConfig(pg, e) ==
    IF e \in pg.configured THEN pg
    ELSE IF pg.cmGlobal /\ pg.installed # "none"
    THEN [setOption(pg, e, withToggleKeys(pg.extraKeys[e],
                                          CommandName("toggleComment")))
             EXCEPT !.configured = @ \cup {e}]
    ELSE LET g == [pg EXCEPT !.cmGlobal = TRUE]
             m == IF g.installed = "none"
                  THEN implementManualCommentToggle(g) ELSE g
         IN  [setOption(m, e, withToggleKeys(m.extraKeys[e], toggleFn))
                 EXCEPT !.configured = @ \cup {e}]

\* configureCodeMirrorInstance(element) of the self-contained version
configureInstanceSelfContained(pg, e) ==
    IF e \in pg.configured THEN pg
    ELSE LET g == [pg EXCEPT !.cmGlobal = TRUE,
                             !.installed = IF ~pg.cmGlobal \/ @ = "none"
                                           THEN "selfContained" ELSE @]
         IN  [setOption(g, e, withToggleKeys(g.extraKeys[e], toggleFn))
                 EXCEPT !.configured = @ \cup {e}]

\* configureCodeMirrorInstance as it would be if it gave up on an editor
\* while there is no toggleComment command
configureCodeMirrorInstance_NeedsCommand(pg, e, version) ==
    IF pg.installed = "none" THEN pg
    ELSE IF version = "thebeConfig" THEN configureInstanceThebeConfig(pg, e)
    ELSE configureInstanceSelfContained(pg, e)

configureCodeMirrorInstance(pg, e, version) ==
    IF version = "thebeConfig" THEN configureInstanceThebeConfig(pg, e)
    ELSE configureInstanceSelfContained(pg, e)

\* document.querySelectorAll('.CodeMirror').forEach(...), from element e on
RECURSIVE configureFrom(_, _, _, _)
configureFrom(pg, e, elements, version) ==
    IF e > MaxEditors THEN pg
    ELSE configureFrom(IF e \in elements
                       THEN configureCodeMirrorInstance(pg, e, version)
                       ELSE pg,
                       e + 1, elements, version)

configureAllCodeMirrorInstances(pg, elements, version) ==
    configureFrom(pg, 1, elements, version)

\* step 3 of window.fixCommentToggle in assets/js/thebe-config.js, from
\* element e on: the key map of every editor is set
RECURSIVE fixFrom(_, _, _)
fixFrom(pg, e, elements) ==
    IF e > MaxEditors THEN pg
    ELSE fixFrom(IF e \in elements
                 THEN [setOption(pg, e, withToggleKeys(pg.extraKeys[e],
                                                       toggleFn))
                          EXCEPT !.configured = @ \cup {e}]
                 ELSE pg,
                 e + 1, elements)

\* window.fixCommentToggle() of assets/js/thebe-config.js
fixCommentToggleThebeConfig(pg, elements) ==
    IF elements = {} THEN pg
    ELSE LET g == [pg EXCEPT !.cmGlobal = TRUE]
             m == IF g.installed = "none"
                  THEN implementManualCommentToggle(g) ELSE g
         IN  fixFrom(m, 1, elements)

\* window.fixCommentToggle() of the self-contained version
fixCommentToggleSelfContained(pg, elements) ==
    IF ~pg.cmGlobal /\ elements = {} THEN pg
    ELSE LET g == [pg EXCEPT !.cmGlobal = TRUE,
                             !.installed = IF ~pg.cmGlobal \/ @ = "none"
                                           THEN "selfContained" ELSE @]
         IN  configureAllCodeMirrorInstances(g, elements, "selfContained")

\* the calls of loadCodeMirrorCommentAddon: what a call is waiting for, what
\* its caller does with the result, and how the script element ended
IdleLoad == [st |-> "idle", then |-> "none", result |-> FALSE, how |-> "none"]

\* the page before Thebe has been bootstrapped: no editors, no timers
PageIdle ==
    /\ script = "selfContained"
    /\ cmGlobal = TRUE
    /\ inDom = {}
    /\ configured = {}
    /\ extraKeys = [e \in Editors |-> NullKeys]
    /\ theme = [e \in Editors |-> "neo"]
    /\ keys0 = [e \in Editors |-> [extraKeys |-> NullKeys, theme |-> "neo"]]
    /\ setOptions = [e \in Editors |-> 0]
    /\ observers = 0
    /\ timeouts = [e \in Editors |-> 0]
    /\ sweeps = 0
    /\ loads = [l \in Loads |-> IdleLoad]
    /\ addonLoaded = FALSE
    /\ errors = {}

(***************************************************************************)
(* The activation of Thebe: the activate button, bootstrapThebe, and the   *)
(* readiness state kept in thebeState.  The instance that the external     *)
(* window.thebe.bootstrap resolves with, and the events it emits, are the  *)
(* environment.                                                            *)
(***************************************************************************)
\* Number of bootstrapThebe calls in one run.
MaxBoots == 2
Boots == 1..MaxBoots

\* the scripts that put a click listener on the activate button
Handlers == {"thebeConfig", "navbar"}

\* the texts the catch block of bootstrapThebe searches for
CORS == <<"C", "O", "R", "S">>
cors == <<"c", "o", "r", "s">>
AccessControl ==
    <<"A", "c", "c", "e", "s", "s", "-", "C", "o", "n", "t", "r", "o", "l">>

\* messages of the values the external bootstrap rejects with
Messages ==
    { <<"n", "o", " ">> \o CORS,
      cors \o <<"?">>,
      <<"C", "o", "r", "s">>,
      AccessControl \o <<"-">>,
      <<"5", "0", "3">> }

\* a rejection value: new Error(text), the plain object {message: text},
\* or the string text
Rejections == [kind : {"Error", "object", "string"}, text : Messages]
NoError == [kind |-> "none", text |-> <<>>]

\* err.message is defined (a string has no message property)
hasMessage(err) == err.kind \in {"Error", "object"}

\* err.toString()
toString(err) ==
    CASE err.kind = "Error" ->
           <<"E", "r", "r", "o", "r", ":", " ">> \o err.text
      [] err.kind = "object" ->
           <<"[", "o", "b", "j", "e", "c", "t", " ",
             "O", "b", "j", "e", "c", "t", "]">>
      [] OTHER -> err.text

\* String.prototype.includes
includes(text, sub) ==
    \E i \in 0..(Len(text) - Len(sub)) : SubSeq(text, i + 1, i + Len(sub)) = sub

\* the condition of the catch block of bootstrapThebe
isCorsError(err) ==
    \/ hasMessage(err) /\ includes(err.text, CORS)
    \/ hasMessage(err) /\ includes(err.text, cors)
    \/ includes(toString(err), CORS)
    \/ includes(toString(err), AccessControl)

isStatusLoading(status) ==
    status \in {"loading", "server-connecting", "session-starting",
                "kernel-starting", "cors-error"}

isStatusReady(status) == status = "ready"

\* updateStatusWidget: restart the 50 ms debounce timer with the new status
updateStatusWidget(w, status) == [w EXCEPT !.timer = status]

applyStatus_KeepClasses(w) ==
    IF w.exists
    THEN [w EXCEPT !.statuses = @ \cup {w.timer},
                   !.loading = isStatusLoading(w.timer),
                   !.ready = isStatusReady(w.timer),
                   !.timer = "none"]
    ELSE [w EXCEPT !.timer = "none"]

\* the callback of the debounce timer
applyStatus(w) ==
    IF w.exists
    THEN [w EXCEPT !.statuses = {w.timer},
                   !.loading = isStatusLoading(w.timer),
                   !.ready = isStatusReady(w.timer),
                   !.timer = "none"]
    ELSE [w EXCEPT !.timer = "none"]

NoThebe == [server |-> "none", session |-> "null", kernelStatus |-> "unknown"]

\* what window.thebe.bootstrap can resolve with: the server connecting or
\* ready, no session yet or a session with or without a kernel
Instances ==
    { i \in [server : {"starting", "ready"},
             session : {"null", "noKernel", "kernel"},
             kernelStatus : {"unknown", "starting", "idle"}] :
        (i.kernelStatus = "unknown") = (i.session # "kernel") }

\* Number of run buttons Thebe adds in one run.
MaxButtons == 2
Buttons == 1..MaxButtons

\* checksWithoutChanges > 15 ends the state checker
StableChecks == 15

\* the page before bootstrap: no run button, the action bar hidden, neither
\* interval started
InitialUI ==
    [controls |-> {}, runButtons |-> [b \in Buttons |-> "absent"],
     observed |-> {}, actions |-> "none",
     debounce |-> [armed |-> FALSE, args |-> {}], calls |-> {},
     monitor |-> "off", stopPending |-> FALSE, checker |-> "off",
     checks |-> 0]

InitialThebeState ==
    [server |-> FALSE, session |-> FALSE, kernel |-> FALSE,
     connected |-> FALSE, isServerReady |-> FALSE, isSessionReady |-> FALSE,
     isKernelReady |-> FALSE]

\* the module-level state the readiness functions read and write
Ready ==
    [ts |-> thebeState, inst |-> thebe, last |-> lastUIStatus,
     widget |-> statusWidget, ui |-> [ui EXCEPT !.calls = {}],
     controls |-> insideControls \/ "navbar" \in listeners]

SetReady(rs) ==
    /\ thebeState' = rs.ts
    /\ lastUIStatus' = rs.last
    /\ statusWidget' = rs.widget
    /\ ui' = rs.ui

checkKernelReady(rs) ==
    LET serverReady ==
            (rs.ts.server /\ rs.inst.server = "ready") \/ rs.ts.isServerReady
        sessionReady ==
            (rs.ts.session /\ rs.inst.session = "kernel")
            \/ rs.ts.isSessionReady
        kernelReady == rs.ts.isKernelReady
    IN  serverReady /\ sessionReady /\ kernelReady

isThebeReady(rs) == checkKernelReady(rs)

getThebeStatus(rs) ==
    IF ~rs.ts.isServerReady THEN "server-connecting"
    ELSE IF ~rs.ts.isSessionReady THEN "session-starting"
    ELSE IF ~rs.ts.isKernelReady THEN "kernel-starting"
    ELSE "ready"

\* thebeActions.toggleRunButtons(show)
toggleRunButtons(buttons, show) ==
    [b \in Buttons |->
        IF show /\ buttons[b] = "hidden" THEN "visible"
        ELSE IF ~show /\ buttons[b] = "visible" THEN "hidden"
        ELSE buttons[b]]

updateUIForStatus(rs, status) ==
    IF ~rs.controls \/ ~rs.widget.exists THEN rs
    ELSE IF status = rs.last THEN rs
    ELSE [rs EXCEPT
            !.last = status,
            !.ui.controls = (@ \ {"ready", "loading", "failed"})
                            \cup ({status} \cap {"ready", "loading", "failed"}),
            !.widget =
                IF status = "ready"
                THEN [rs.widget EXCEPT
                        !.loading = FALSE, !.ready = TRUE,
                        !.statuses = @ \ {"loading"}]
                ELSE IF status = "loading"
                THEN [rs.widget EXCEPT !.loading = TRUE, !.ready = FALSE]
                ELSE [rs.widget EXCEPT !.loading = FALSE, !.ready = FALSE],
            !.ui.runButtons = toggleRunButtons(@, status = "ready"),
            !.ui.actions = IF status = "ready" THEN "flex" ELSE "none"]

\* runInitializationCells: the run button of every .thebe-init cell is clicked
runInitializationCells(rs) ==
    [rs EXCEPT !.ui.calls = @ \cup {"runInitializationCells"}]

onKernelReady(rs) ==
    runInitializationCells(
        updateUIForStatus([rs EXCEPT !.ui.calls = @ \cup {"onKernelReady"}],
                          "ready"))

onKernelNotReady(rs) ==
    updateUIForStatus([rs EXCEPT !.ui.calls = @ \cup {"onKernelNotReady"}],
                      "loading")

updateConnectionState(rs) ==
    LET wasReady == rs.ts.isKernelReady
        isReady == checkKernelReady(rs)
    IN  IF isReady /\ ~wasReady THEN onKernelReady(rs)
        ELSE IF ~isReady /\ wasReady THEN onKernelNotReady(rs)
        ELSE rs

\* setupKernelMonitoring(session); session is the instance's session
setupKernelMonitoring(rs) ==
    IF rs.inst.session = "kernel"
    THEN LET r1 == [rs EXCEPT
                      !.ts.kernel = TRUE,
                      !.ts.connected = TRUE,
                      !.ts.isKernelReady =
                          rs.inst.kernelStatus \in {"idle", "ready"}]
         IN  IF rs.inst.kernelStatus = "idle"
             THEN updateConnectionState([r1 EXCEPT !.ts.isKernelReady = TRUE])
             ELSE r1
    ELSE rs

\* checkForSession up to its first await or timer
checkForSession(rs) ==
    IF rs.inst.session # "null" /\ ~rs.ts.session
    THEN updateConnectionState(
             setupKernelMonitoring(
                 [rs EXCEPT !.ts.session = TRUE, !.ts.isSessionReady = TRUE]))
    ELSE rs

\* the callback of thebe.server.ready.then
serverReadyThen(rs) ==
    updateConnectionState([rs EXCEPT !.ts.isServerReady = TRUE])

\* setupThebeEventListeners(thebe): the call, and the callback of
\* thebe.server.ready when the server is ready already
setupThebeEventListeners(rs, instance) ==
    LET r1 == [rs EXCEPT !.inst = instance]
        r2 == IF instance.server # "none"
              THEN [r1 EXCEPT !.ts.server = TRUE] ELSE r1
        r3 == checkForSession(r2)
    IN  IF instance.server = "ready" THEN serverReadyThen(r3) ELSE r3

\* the events thebe.events emits with 'status'
StatusEvents ==
    [subject : {"server"}, status : {"server-ready", "closed", "launching"},
     object : {FALSE}]
    \cup [subject : {"session"}, status : {"ready", "shutdown", "starting"},
          object : BOOLEAN]
    \cup [subject : {"kernel"}, status : {"ready", "shutdown", "dead", "busy"},
          object : BOOLEAN]

handleThebeStatusEvent(rs, data) ==
    LET r1 == IF data.subject = "server" /\ data.status = "server-ready"
              THEN [rs EXCEPT !.ts.isServerReady = TRUE]
              ELSE IF data.subject = "server" /\ data.status = "closed"
              THEN [rs EXCEPT !.ts.isServerReady = FALSE]
              ELSE rs
        r2 == IF data.subject = "session" /\ data.status = "ready"
              THEN LET r == [r1 EXCEPT !.ts.isSessionReady = TRUE]
                   IN  IF data.object
                       THEN setupKernelMonitoring(
                                [r EXCEPT !.ts.session = TRUE])
                       ELSE r
              ELSE IF data.subject = "session" /\ data.status = "shutdown"
              THEN [r1 EXCEPT !.ts.isSessionReady = FALSE,
                              !.ts.isKernelReady = FALSE]
              ELSE r1
        r3 == IF data.subject = "kernel" /\ data.status = "ready"
              THEN [r2 EXCEPT !.ts.isKernelReady = TRUE,
                              !.ts.kernel = @ \/ data.object]
              ELSE IF data.subject = "kernel"
                      /\ data.status \in {"shutdown", "dead"}
              THEN [r2 EXCEPT !.ts.isKernelReady = FALSE]
              ELSE r2
    IN  updateConnectionState(r3)

handleThebeErrorEvent(rs, subject) ==
    updateConnectionState(
        IF subject = "server" THEN [rs EXCEPT !.ts.isServerReady = FALSE]
        ELSE IF subject = "session"
        THEN [rs EXCEPT !.ts.isSessionReady = FALSE]
        ELSE IF subject = "kernel"
        THEN [rs EXCEPT !.ts.isKernelReady = FALSE]
        ELSE rs)

\* the listener of session.kernel.statusChanged
kernelStatusChanged(rs, status) ==
    updateConnectionState(
        IF status = "idle" THEN [rs EXCEPT !.ts.isKernelReady = TRUE]
        ELSE IF status \in {"dead", "disconnected"}
        THEN [rs EXCEPT !.ts.isKernelReady = FALSE]
        ELSE rs)

\* the run-button observer of setupMutationObserver, for one added button
runButtonAdded(rs, b) ==
    LET seen == [rs EXCEPT !.ui.observed = @ \cup {b}]
    IN  IF rs.inst.session = "kernel"
        THEN updateConnectionState(
                 [seen EXCEPT !.ui.runButtons[b] = "visible",
                              !.ts.isKernelReady = TRUE])
        ELSE [seen EXCEPT !.ui.runButtons[b] = "hidden"]

\* the observer callback for the mutations it is called with
RECURSIVE runButtonsAdded(_, _)
runButtonsAdded(rs, batch) ==
    IF batch = {} THEN rs
    ELSE LET b == CHOOSE x \in batch : \A y \in batch : x <= y
         IN  runButtonsAdded(runButtonAdded(rs, b), batch \ {b})

\* utils.debounce: a call drops the pending one and waits with its own
\* arguments
debounce(timer, args) == [armed |-> TRUE, args |-> args]

\* one tick of the interval of monitorThebeStatus; a tick that finds Thebe
\* ready starts the 10 s timer that ends the interval
statusChecker(rs) ==
    IF isThebeReady(rs)
    THEN [updateUIForStatus(rs, "ready") EXCEPT !.ui.stopPending = TRUE]
    ELSE updateUIForStatus(rs, "loading")

\* one tick of the interval of startThebeStateChecker
stateChecker(rs) ==
    IF rs.ui.checks > StableChecks THEN [rs EXCEPT !.ui.checker = "stopped"]
    ELSE IF isThebeReady(rs) /\ rs.controls /\ rs.widget.exists
    THEN LET r1 == IF "ready" \notin rs.ui.controls
                   THEN [rs EXCEPT !.ui.controls = (@ \cup {"ready"})
                                                   \ {"loading"}]
                   ELSE rs
             r2 == IF r1.widget.loading
                   THEN [r1 EXCEPT !.widget.loading = FALSE,
                                   !.widget.statuses = @ \ {"loading"},
                                   !.widget.ready = TRUE]
                   ELSE r1
             r3 == [r2 EXCEPT !.ui.runButtons =
                       [b \in Buttons |->
                           IF @[b] = "hidden" THEN "visible" ELSE @[b]]]
             r4 == IF r3.ui.actions = "none"
                   THEN [r3 EXCEPT !.ui.actions = "flex"] ELSE r3
             changesMade == r4 # rs
         IN  [r4 EXCEPT !.ui.checks = IF changesMade THEN 0 ELSE @ + 1]
    ELSE [rs EXCEPT !.ui.checks = @ + 1]

IdleBoot == [st |-> "idle", err |-> NoError, thrown |-> NoError,
             status |-> "none", external |-> 0]

IdleClick == [pc |-> "idle", boot |-> 0]

OriginalButton == [display |-> "", disabled |-> FALSE, labels |-> "original"]

\* Number of .thebe-status elements the document can get.
MaxWidgets == 2
Widgets == 1..MaxWidgets

\* pollCount > 50 ends the polling of moveStatusToNavbar
PollLimit == 50

NoWidget == [at |-> "absent", display |-> ""]

\* no navbar yet
IdleNav ==
    [created |-> FALSE, widgets |-> [w \in Widgets |-> NoWidget],
     observer |-> "none", records |-> FALSE, poll |-> "off", pollCount |-> 0,
     warned |-> FALSE]

NavbarIdle == nav = IdleNav

\* how many times each of the thebeActions is called
MaxCalls == 2

\* thebeActions before any call: pc is where restartAndRunAll stands
IdleAct ==
    [pc |-> "idle", started |-> 0, asked |-> 0, restarts |-> 0,
     executeCalls |-> 0, executes |-> 0, warnings |-> 0, resolved |-> 0,
     rejected |-> 0, skipped |-> 0, ran |-> 0, runs |-> 0, result |-> "none"]

\* the navbar element as createNavbar builds it, at the top of the page
\* and of a window of full width on a page that does not scroll; the status
\* widget is not in it, and the library has written no status text
IdleBar ==
    [classes |-> {"custom-navbar", "headroom", "fixed-top", "headroom--top",
                  "headroom--bottom"},
     lastScrollY |-> 0, scrollY |-> 0, maxScroll |-> 0, scrollRAF |-> FALSE,
     width |-> 1300, widget |-> FALSE, text |-> <<>>, originalText |-> <<>>,
     status |-> <<>>]

\* no call of configureCodeMirrorInstance yet
IdleCfg ==
    [element |-> 0, fault |-> "none", returned |-> "none", logged |-> FALSE,
     before |-> NullKeys]

ExtraIdle == act = IdleAct /\ bar = IdleBar /\ cfg = IdleCfg

\* findThebeStatus: the first .thebe-status element of the document that is
\* not inside the navbar, 0 for null
findThebeStatus(nv) ==
    LET outside == {w \in Widgets : nv.widgets[w].at = "outside"}
    IN  IF outside = {} THEN 0
        ELSE CHOOSE w \in outside : \A v \in outside : w <= v

attemptMove_KeepHidden(nv) ==
    LET statusDisplay == findThebeStatus(nv)
    IN  IF statusDisplay # 0
        THEN [moved |-> TRUE,
              nav |-> [nv EXCEPT !.widgets[statusDisplay].at = "navbar"]]
        ELSE [moved |-> FALSE, nav |-> nv]

\* attemptMove of moveStatusToNavbar: the navbar's .thebe-status-container
\* exists and cannot contain an element that findThebeStatus returns
attemptMove(nv) ==
    LET statusDisplay == findThebeStatus(nv)
    IN  IF statusDisplay # 0
        THEN [moved |-> TRUE,
              nav |-> [nv EXCEPT !.widgets[statusDisplay] =
                                    [at |-> "navbar", display |-> ""]]]
        ELSE [moved |-> FALSE, nav |-> nv]

\* moveStatusToNavbar, called once by the constructor of CustomNavbar; the
\* element it would hide at its end does not exist when attemptMove failed
moveStatusToNavbar(nv) ==
    LET r == attemptMove([nv EXCEPT !.created = TRUE])
    IN  IF r.moved THEN r.nav
        ELSE [r.nav EXCEPT !.observer = "observing", !.poll = "running",
                           !.pollCount = 0]

BootIdle ==
    /\ thebe = NoThebe
    /\ thebeState = InitialThebeState
    /\ boots = [b \in Boots |-> IdleBoot]
    /\ statusWidget = [exists |-> FALSE, statuses |-> {}, loading |-> FALSE,
                       ready |-> FALSE, timer |-> "none"]
    /\ lastUIStatus = "null"
    /\ ui = InitialUI
    /\ btn = OriginalButton
    /\ activated = FALSE
    /\ listeners = {}
    /\ insideControls = FALSE
    /\ thebeAPI = FALSE
    /\ clicks = [h \in Handlers |-> IdleClick]

(***************************************************************************)
(* Actions.                                                                *)
(***************************************************************************)
\* Cmd-/ or Ctrl-/ with the self-contained command installed
ToggleComment ==
    /\ installed = "selfContained"
    /\ n < MaxToggles
    /\ LET r == toggleComment(lines, sels, mode)
       IN  /\ lines' = r.buf
           /\ sels' = r.sels
    /\ used' = getCommentString(mode)
    /\ pre' = [lines |-> lines, sels |-> sels]
    /\ n' = n + 1
    /\ UNCHANGED <<mode, installed, orig, pageVars, bootVars>>

\* Cmd-/ or Ctrl-/ with the manual fallback installed
ManualToggleComment ==
    /\ installed = "manual"
    /\ n < MaxToggles
    /\ LET r == manualToggleComment(lines, sels, mode)
       IN  /\ lines' = r.buf
           /\ sels' = r.sels
    /\ used' = manualCommentString(mode)
    /\ pre' = [lines |-> lines, sels |-> sels]
    /\ n' = n + 1
    /\ UNCHANGED <<mode, installed, orig, pageVars, bootVars>>

\* Cmd-/ or Ctrl-/ with the command of the QUICK_FIX.md console fix installed
QuickFixToggleComment ==
    /\ installed = "quickFix"
    /\ n < MaxToggles
    /\ LET r == quickFixToggleComment(lines, sels, mode)
       IN  /\ lines' = r.buf
           /\ sels' = r.sels
    /\ used' = quickFixMarker(mode)
    /\ pre' = [lines |-> lines, sels |-> sels]
    /\ n' = n + 1
    /\ UNCHANGED <<mode, installed, orig, pageVars, bootVars>>

\* Cmd-/ or Ctrl-/ with no command on CodeMirror.commands: the inline code
InlineToggleComment ==
    /\ installed = "none"
    /\ n < MaxToggles
    /\ LET r == inlineToggleComment(lines, sels, mode)
       IN  /\ lines' = r.buf
           /\ sels' = r.sels
    /\ used' = inlineCommentString(mode)
    /\ pre' = [lines |-> lines, sels |-> sels]
    /\ n' = n + 1
    /\ UNCHANGED <<mode, installed, orig, pageVars, bootVars>>

(***************************************************************************)
(* Initial states: an editor loaded with a text, a selection in it.        *)
(***************************************************************************)
\* cm.setValue(text): the lines of a text
RECURSIVE SplitLines(_)
SplitLines(text) ==
    IF \A i \in 1..Len(text) : text[i] # NL THEN <<text>>
    ELSE LET k == CHOOSE i \in 1..Len(text) :
                      text[i] = NL /\ \A j \in 1..(i - 1) : text[j] # NL
         IN  <<SubSeq(text, 1, k - 1)>> \o SplitLines(Slice(text, k))

\* the positions of a buffer
Positions(buf) ==
    UNION {{Pos(l, c) : c \in 0..Len(buf[l + 1])} : l \in 0..(Len(buf) - 1)}

\* the modes CodeMirror ships for the two languages, with their lineComment
PythonMode == [name |-> "python", lineComment |-> Hash]
JavaScriptMode == [name |-> "javascript", lineComment |-> Slashes]

\* further modes: CodeMirror's null mode, a mode object without a name,
\* names in other spellings, names with and without a lineComment property
OtherModes ==
    { [name |-> "null", lineComment |-> <<>>],
      [name |-> "", lineComment |-> <<>>],
      [name |-> "Python", lineComment |-> <<>>],
      [name |-> "python", lineComment |-> <<>>],
      [name |-> "javascript", lineComment |-> <<>>],
      [name |-> "ruby", lineComment |-> Hash],
      [name |-> "sql", lineComment |-> Dashes],
      [name |-> "cobol", lineComment |-> <<>>] }

\* the characters of a loaded text: whitespace, the marker's characters, a
\* letter and the line break
TextChars(commentString) ==
    {" ", "a", NL} \cup {commentString[i] : i \in 1..Len(commentString)}

Texts(chars) == UNION {[1..k -> chars] : k \in 0..MaxText}

\* the buffers of the documented scenarios and tests
ExampleBuffers ==
    { << <<"a">>, <<"#", " ", "b">> >>,
      << <<" ", " ", " ", " ", "x", " ", "=", " ", "1">> >>,
      << <<"p", "r", "i", "n", "t", "(", "1", ")">> >>,
      << <<"t", "e", "s", "t", " ", "l", "i", "n", "e">> >>,
      << <<"l", "1">>, <<"l", "2">>, <<"l", "3">> >>,
      << <<"\t", "#", "\t", "a", "\t">>, <<"\t">>, <<"/", "/", "\t", "\t", "a">> >> }

\* cm.setCursor(0, 0), or a selection of the whole buffer in either direction
ExampleSelections(buf) ==
    LET start == Pos(0, 0)
        end == Pos(Len(buf) - 1, Len(buf[Len(buf)]))
    IN  { [anchor |-> start, head |-> start],
          [anchor |-> start, head |-> end],
          [anchor |-> end, head |-> start] }

Implementations == {"selfContained", "manual"}

InitGeneric ==
    /\ mode \in {PythonMode, JavaScriptMode}
    /\ \E text \in Texts(TextChars(mode.lineComment)) :
           lines = SplitLines(text)
    /\ \E a \in Positions(lines), h \in Positions(lines) :
           sels = <<[anchor |-> a, head |-> h]>>
    /\ installed \in Implementations

InitExamples ==
    /\ mode \in {PythonMode, JavaScriptMode} \cup OtherModes
    /\ lines \in ExampleBuffers
    /\ \E s \in ExampleSelections(lines) : sels = <<s>>
    /\ installed \in Implementations

Init ==
    /\ (InitGeneric \/ InitExamples)
    /\ orig = [lines |-> lines, sels |-> sels]
    /\ pre = orig
    /\ n = 0
    /\ used = <<>>
    /\ PageIdle
    /\ NavbarIdle
    /\ ExtraIdle
    /\ BootIdle

Next ==
    \/ ToggleComment
    \/ ManualToggleComment

Spec == Init /\ [][Next]_vars

(***************************************************************************)
(* Editors with two cursors (Ctrl/Cmd-click adds a cursor).                *)
(***************************************************************************)
\* two cursors as cm.listSelections() returns them: in document order, apart
TwoCursors(buf) ==
    {<<[anchor |-> a, head |-> a], [anchor |-> b, head |-> b]>> :
        <<a, b>> \in {pq \in Positions(buf) \X Positions(buf) :
                         pq[1] # pq[2] /\ PosLE(pq[1], pq[2])}}

\* a selection of the start of the first line and a cursor at the end of
\* the buffer, for a first line that is not empty
RangeAndCursor(buf) ==
    LET end == Pos(Len(buf) - 1, Len(buf[Len(buf)]))
    IN  { ss \in { <<[anchor |-> Pos(0, 0), head |-> Pos(0, 1)],
                     [anchor |-> end, head |-> end]>>,
                   <<[anchor |-> Pos(0, 1), head |-> Pos(0, 0)],
                     [anchor |-> end, head |-> end]>> } :
            Len(buf[1]) >= 1 /\ end # Pos(0, 1) }

InitSelections ==
    /\ \/ /\ mode = PythonMode
          /\ \E text \in Texts(TextChars(mode.lineComment)) :
                 lines = SplitLines(text)
          /\ sels \in TwoCursors(lines)
       \/ /\ mode \in {PythonMode, JavaScriptMode}
          /\ lines \in ExampleBuffers
          /\ sels \in TwoCursors(lines) \cup RangeAndCursor(lines)
    /\ installed \in Implementations
    /\ orig = [lines |-> lines, sels |-> sels]
    /\ pre = orig
    /\ n = 0
    /\ used = <<>>
    /\ PageIdle
    /\ NavbarIdle
    /\ ExtraIdle
    /\ BootIdle

SpecSelections == InitSelections /\ [][Next]_vars

(***************************************************************************)
(* The four copies of the toggle side by side: the same editors, with any  *)
(* of the copies behind the key.                                           *)
(***************************************************************************)
Copies == {"selfContained", "manual", "quickFix", "none"}

InitCopies ==
    /\ \/ /\ mode = PythonMode
          /\ \E text \in Texts(TextChars(mode.lineComment)) :
                 lines = SplitLines(text)
          /\ \E a \in Positions(lines), h \in Positions(lines) :
                 sels = <<[anchor |-> a, head |-> h]>>
       \/ /\ mode \in {PythonMode, JavaScriptMode} \cup OtherModes
          /\ lines \in ExampleBuffers
          /\ \E s \in ExampleSelections(lines) : sels = <<s>>
    /\ installed \in Copies
    /\ orig = [lines |-> lines, sels |-> sels]
    /\ pre = orig
    /\ n = 0
    /\ used = <<>>
    /\ PageIdle
    /\ NavbarIdle
    /\ ExtraIdle
    /\ BootIdle

NextCopies ==
    \/ ToggleComment
    \/ ManualToggleComment
    \/ QuickFixToggleComment
    \/ InlineToggleComment

SpecCopies == InitCopies /\ [][NextCopies]_vars

(***************************************************************************)
(* The page's handlers.  Timers, script events and console calls run one   *)
(* at a time; each action is one of them run to completion.                *)
(***************************************************************************)
\* the page's state as the record that the operators above work on
Page ==
    [installed |-> installed, cmGlobal |-> cmGlobal,
     configured |-> configured, extraKeys |-> extraKeys,
     setOptions |-> setOptions]

SetPage(pg) ==
    /\ installed' = pg.installed
    /\ cmGlobal' = pg.cmGlobal
    /\ configured' = pg.configured
    /\ extraKeys' = pg.extraKeys
    /\ setOptions' = pg.setOptions

\* Thebe renders a code cell: a .CodeMirror element with its editor is added
\* to the document, and every observer of setupCodeMirrorCommentToggle
\* schedules configureCodeMirrorInstance for it
RenderEditor ==
    LET e == Cardinality(inDom) + 1
    IN  /\ e \in Editors
        /\ inDom' = inDom \cup {e}
        /\ \E keyMap \in InitialExtraKeys :
               /\ extraKeys' = [extraKeys EXCEPT ![e] = keyMap]
               /\ keys0' = [keys0 EXCEPT
                               ![e] = [extraKeys |-> keyMap, theme |-> theme[e]]]
        /\ timeouts' = [timeouts EXCEPT ![e] = @ + observers]
        /\ UNCHANGED <<editorVars, bootVars, installed, script, cmGlobal, configured,
                       theme, setOptions, observers, sweeps, loads,
                       addonLoaded, errors>>

\* setupCodeMirrorCommentToggle() of the self-contained version, called by
\* bootstrapThebe when the bootstrap has resolved
SetupSelfContained ==
    /\ script = "selfContained"
    /\ observers = 0
    /\ SetPage(configureAllCodeMirrorInstances(Page, inDom, script))
    /\ observers' = 1
    /\ UNCHANGED <<editorVars, bootVars, script, inDom, theme, keys0, timeouts, sweeps,
                   loads, addonLoaded, errors>>

\* a call of loadCodeMirrorCommentAddon starts in the first unused slot
StartLoad(then) ==
    \E l \in Loads :
        /\ loads[l].st = "idle"
        /\ \A k \in 1..(l - 1) : loads[k].st # "idle"
        /\ loads' = [loads EXCEPT ![l].st = "waiting", ![l].then = then]

\* the setTimeout(..., 1000) of bootstrapThebe in assets/js/thebe-config.js
BootstrapTimer ==
    /\ script = "thebeConfig"
    /\ \A l \in Loads : loads[l].then # "timer"
    /\ StartLoad("timer")
    /\ UNCHANGED <<editorVars, bootVars, installed, script, cmGlobal, inDom, configured,
                   extraKeys, theme, keys0, setOptions, observers, timeouts,
                   sweeps, addonLoaded, errors>>

\* a tick of the setInterval(..., 2000) watcher of bootstrapThebe that finds
\* editors or the global and calls the loader
WatcherTick ==
    /\ script = "thebeConfig"
    /\ ~addonLoaded
    /\ cmGlobal \/ inDom # {}
    /\ StartLoad("watcher")
    /\ UNCHANGED <<editorVars, bootVars, installed, script, cmGlobal, inDom, configured,
                   extraKeys, theme, keys0, setOptions, observers, timeouts,
                   sweeps, addonLoaded, errors>>

\* setupCodeMirrorCommentToggle() of assets/js/thebe-config.js on the page
\* pg: the sweep over the editors, one more observer, one more delayed sweep
SetupThebeConfig(pg) ==
    /\ SetPage(configureAllCodeMirrorInstances(pg, inDom, script))
    /\ observers' = observers + 1
    /\ sweeps' = sweeps + 1

\* call l of loadCodeMirrorCommentAddon resolves on the page pg, and its
\* caller, which awaits it, continues in the same turn of the event loop:
\* the timer and the watcher of bootstrapThebe set up the editors after a
\* result of true, forceReconfigure configures them after any result
LoadResolved(l, pg, result, how) ==
    /\ loads' = [loads EXCEPT ![l].st = "done", ![l].result = result,
                              ![l].how = how]
    /\ CASE loads[l].then = "timer" /\ result ->
                SetupThebeConfig(pg) /\ UNCHANGED addonLoaded
         [] loads[l].then = "watcher" /\ result ->
                SetupThebeConfig(pg) /\ addonLoaded' = TRUE
         [] loads[l].then = "force" ->
                /\ SetPage(configureAllCodeMirrorInstances(pg, inDom, script))
                /\ UNCHANGED <<observers, sweeps, addonLoaded>>
         [] OTHER ->
                SetPage(pg) /\ UNCHANGED <<observers, sweeps, addonLoaded>>

\* waitForCodeMirror finds CodeMirror (the global, thebe.CodeMirror or an
\* editor in the document); the loader returns true if the command exists
\* and appends the add-on's script element otherwise
LoadWait(l) ==
    /\ loads[l].st = "waiting"
    /\ cmGlobal \/ inDom # {}
    /\ IF cmGlobal /\ installed # "none"
       THEN LoadResolved(l, Page, TRUE, "present")
       ELSE /\ loads' = [loads EXCEPT ![l].st = "fetching"]
            /\ cmGlobal' = TRUE
            /\ UNCHANGED <<installed, configured, extraKeys, setOptions,
                           observers, sweeps, addonLoaded>>
    /\ UNCHANGED <<editorVars, bootVars, script, inDom, theme, keys0, timeouts, errors>>

\* waitForCodeMirror gives up: the loader returns false
LoadTimeout(l) ==
    /\ loads[l].st = "waiting"
    /\ ~(cmGlobal \/ inDom # {})
    /\ LoadResolved(l, Page, FALSE, "timeout")
    /\ errors' = errors \cup {"CodeMirror not available"}
    /\ UNCHANGED <<editorVars, bootVars, script, inDom, theme, keys0, timeouts>>

\* script.onload: the add-on's script has run; it has defined
\* CodeMirror.commands.toggleComment or it has not
ScriptOnLoad(l) ==
    /\ loads[l].st = "fetching"
    /\ \E defines \in BOOLEAN :
           LoadResolved(l,
                        IF defines THEN [Page EXCEPT !.installed = "addon"]
                        ELSE IF installed # "none" THEN Page
                        ELSE implementManualCommentToggle(Page),
                        TRUE,
                        IF defines \/ installed # "none" THEN "onload"
                        ELSE "onloadWithout")
    /\ UNCHANGED <<editorVars, bootVars, script, inDom, theme, keys0, timeouts, errors>>

\* script.onerror: the add-on's script could not be loaded
ScriptOnError(l) ==
    /\ loads[l].st = "fetching"
    /\ LoadResolved(l, implementManualCommentToggle(Page), TRUE, "onerror")
    /\ errors' = errors \cup {"Failed to load CodeMirror comment addon"}
    /\ UNCHANGED <<editorVars, bootVars, script, inDom, theme, keys0, timeouts>>

\* a setTimeout(() => configureCodeMirrorInstance(element), 100) fires
ConfigureTimeout(e) ==
    /\ timeouts[e] > 0
    /\ timeouts' = [timeouts EXCEPT ![e] = @ - 1]
    /\ SetPage(configureCodeMirrorInstance(Page, e, script))
    /\ UNCHANGED <<editorVars, bootVars, script, inDom, theme, keys0, observers, sweeps,
                   loads, addonLoaded, errors>>

\* the setTimeout(() => configureAllCodeMirrorInstances(), 2000) fires
DelayedSweep ==
    /\ sweeps > 0
    /\ sweeps' = sweeps - 1
    /\ SetPage(configureAllCodeMirrorInstances(Page, inDom, script))
    /\ UNCHANGED <<editorVars, bootVars, script, inDom, theme, keys0, observers,
                   timeouts, loads, addonLoaded, errors>>

\* window.fixCommentToggle() from the console (the test it ends with puts
\* the editor's content back)
FixCommentToggle ==
    /\ \A e \in Editors : setOptions[e] < MaxSetOptions
    /\ SetPage(IF script = "thebeConfig"
               THEN fixCommentToggleThebeConfig(Page, inDom)
               ELSE fixCommentToggleSelfContained(Page, inDom))
    /\ errors' = IF inDom = {} /\ (script = "thebeConfig" \/ ~cmGlobal)
                 THEN errors \cup {"No CodeMirror editors found"}
                 ELSE errors
    /\ UNCHANGED <<editorVars, bootVars, script, inDom, theme, keys0, observers,
                   timeouts, sweeps, loads, addonLoaded>>

\* window.debugCommentToggle.forceReconfigure() from the console; the
\* self-contained version has no loadCodeMirrorCommentAddon to call
ForceReconfigure ==
    /\ IF cmGlobal /\ installed # "none"
       THEN /\ SetPage(configureAllCodeMirrorInstances(Page, inDom, script))
            /\ UNCHANGED <<loads, errors>>
       ELSE IF script = "thebeConfig"
       THEN /\ StartLoad("force")
            /\ UNCHANGED <<installed, cmGlobal, configured, extraKeys,
                           setOptions, errors>>
       ELSE /\ errors' = errors \cup {"ReferenceError"}
            /\ UNCHANGED <<installed, cmGlobal, configured, extraKeys,
                           setOptions, loads>>
    /\ UNCHANGED <<editorVars, bootVars, script, inDom, theme, keys0, observers,
                   timeouts, sweeps, addonLoaded>>

\* the page when Thebe's bootstrap has resolved: the editors that Thebe has
\* rendered by then, no add-on, no command
InitConfig ==
    /\ lines = << <<>> >>
    /\ sels = <<[anchor |-> Pos(0, 0), head |-> Pos(0, 0)]>>
    /\ mode = PythonMode
    /\ orig = [lines |-> lines, sels |-> sels]
    /\ pre = orig
    /\ n = 0
    /\ used = <<>>
    /\ installed = "none"
    /\ script \in Scripts
    /\ cmGlobal \in BOOLEAN
    /\ inDom = {}
    /\ configured = {}
    /\ extraKeys = [e \in Editors |-> NullKeys]
    /\ theme = [e \in Editors |-> "neo"]
    /\ keys0 = [e \in Editors |-> [extraKeys |-> NullKeys, theme |-> "neo"]]
    /\ setOptions = [e \in Editors |-> 0]
    /\ observers = 0
    /\ timeouts = [e \in Editors |-> 0]
    /\ sweeps = 0
    /\ loads = [l \in Loads |-> IdleLoad]
    /\ addonLoaded = FALSE
    /\ errors = {}
    /\ BootIdle
    /\ NavbarIdle
    /\ ExtraIdle

NextConfig ==
    \/ RenderEditor
    \/ SetupSelfContained
    \/ BootstrapTimer
    \/ WatcherTick
    \/ \E l \in Loads : LoadWait(l)
    \/ \E l \in Loads : LoadTimeout(l)
    \/ \E l \in Loads : ScriptOnLoad(l)
    \/ \E l \in Loads : ScriptOnError(l)
    \/ \E e \in Editors : ConfigureTimeout(e)
    \/ DelayedSweep
    \/ FixCommentToggle
    \/ ForceReconfigure

SpecConfig == InitConfig /\ [][NextConfig]_vars

\* the page left to itself, without calls from the console
NextSetup ==
    \/ RenderEditor
    \/ SetupSelfContained
    \/ BootstrapTimer
    \/ WatcherTick
    \/ \E l \in Loads : LoadWait(l)
    \/ \E l \in Loads : LoadTimeout(l)
    \/ \E l \in Loads : ScriptOnLoad(l)
    \/ \E l \in Loads : ScriptOnError(l)
    \/ \E e \in Editors : ConfigureTimeout(e)
    \/ DelayedSweep

SpecSetup == InitConfig /\ [][NextSetup]_vars

\* timers fire: a scheduled configureCodeMirrorInstance is eventually run
SpecSetupFair ==
    /\ InitConfig
    /\ [][NextSetup]_vars
    /\ \A e \in Editors : WF_vars(ConfigureTimeout(e))

(***************************************************************************)
(* Activation: clicks on the activate button and the bootstrap they start. *)
(* assets/js/thebe-config.js puts a click listener on every                *)
(* [data-thebe-activate] element that exists when initializeThebe runs;    *)
(* the navbar script creates such a button, outside its .thebe-controls,   *)
(* and puts its own listener on it.                                        *)
(***************************************************************************)
\* the next call of bootstrapThebe
FreeBoot(bt) ==
    CHOOSE b \in Boots :
        bt[b].st = "idle" /\ \A c \in 1..(b - 1) : bt[c].st # "idle"

HasFreeBoots(bt, k) == Cardinality({b \in Boots : bt[b].st = "idle"}) >= k

\* bootstrapThebe up to `await window.thebe.bootstrap(thebeConfig)`
startBootstrap(bt, b) == [bt EXCEPT ![b].st = "pending", ![b].external = 1]

InFlight == {"waitForThebeAPI", "bootstrapThebe"}

\* a click on the activate button: the listeners run in the order they were
\* added, each up to the await it stops at
Click ==
    /\ btn.display = ""
    /\ ~btn.disabled
    /\ listeners # {}
    /\ \A h \in Handlers : clicks[h].pc \notin InFlight
    /\ LET navbar == "navbar" \in listeners
           tc == "thebeConfig" \in listeners
           needed == (IF navbar /\ thebeAPI THEN 1 ELSE 0) + (IF tc THEN 1 ELSE 0)
           b1 == FreeBoot(boots)
           bt1 == IF navbar /\ thebeAPI THEN startBootstrap(boots, b1) ELSE boots
           b2 == FreeBoot(bt1)
           bt2 == IF tc THEN startBootstrap(bt1, b2) ELSE bt1
       IN  /\ HasFreeBoots(boots, needed)
           /\ boots' = bt2
           /\ clicks' =
                [h \in Handlers |->
                    IF h = "navbar" /\ navbar
                    THEN IF thebeAPI
                         THEN [pc |-> "bootstrapThebe", boot |-> b1]
                         ELSE [pc |-> "waitForThebeAPI", boot |-> 0]
                    ELSE IF h = "thebeConfig" /\ tc
                    THEN [pc |-> "bootstrapThebe", boot |-> b2]
                    ELSE clicks[h]]
           /\ btn' = [display |-> IF tc THEN "none" ELSE btn.display,
                      disabled |-> IF navbar THEN TRUE ELSE btn.disabled,
                      labels |-> IF navbar THEN "activating" ELSE btn.labels]
           /\ activated' = (navbar \/ (tc /\ insideControls) \/ activated)
    /\ UNCHANGED <<editorVars, installed, pageVars, thebe, thebeState,
                   statusWidget, lastUIStatus, ui, nav, extraVars, listeners,
                   insideControls, thebeAPI>>

\* assets/js/thebe-config.js runs after the navbar has created its button:
\* it defines window.thebeAPI and initializeThebe adds its listener
ScriptLoads ==
    /\ ~thebeAPI
    /\ thebeAPI' = TRUE
    /\ listeners' = listeners \cup {"thebeConfig"}
    /\ UNCHANGED <<editorVars, installed, pageVars, thebe, thebeState, boots,
                   statusWidget, lastUIStatus, ui, nav, extraVars, btn, activated, insideControls,
                   clicks>>

navbarRestore_KeepDisabled(b) == [b EXCEPT !.labels = "original"]

\* handleActivateClick's catch block
navbarRestore(b) == [b EXCEPT !.disabled = FALSE, !.labels = "original"]

\* waitForThebeAPI finds window.thebeAPI.bootstrapThebe; handleActivateClick
\* goes on to call it
ApiPoll ==
    /\ clicks["navbar"].pc = "waitForThebeAPI"
    /\ thebeAPI
    /\ HasFreeBoots(boots, 1)
    /\ boots' = startBootstrap(boots, FreeBoot(boots))
    /\ clicks' = [clicks EXCEPT !["navbar"] =
                    [pc |-> "bootstrapThebe", boot |-> FreeBoot(boots)]]
    /\ UNCHANGED <<editorVars, installed, pageVars, thebe, thebeState,
                   statusWidget, lastUIStatus, ui, nav, extraVars, btn, activated, listeners,
                   insideControls, thebeAPI>>

\* waitForThebeAPI leaves its loop after the timeout and throws
ApiTimeout ==
    /\ clicks["navbar"].pc = "waitForThebeAPI"
    /\ btn' = navbarRestore(btn)
    /\ activated' = FALSE
    /\ clicks' = [clicks EXCEPT !["navbar"].pc = "reverted"]
    /\ UNCHANGED <<editorVars, installed, pageVars, thebe, thebeState, boots,
                   statusWidget, lastUIStatus, ui, nav, extraVars, listeners, insideControls,
                   thebeAPI>>

\* the listener that awaits call b of bootstrapThebe goes on after it
Awaiting(b) == {h \in Handlers : clicks[h].pc = "bootstrapThebe"
                                 /\ clicks[h].boot = b}

\* window.thebe.bootstrap resolves: the rest of bootstrapThebe's try block,
\* then the rest of the listener that awaits it
BootstrapResolves(b, instance, mount) ==
    /\ boots[b].st = "pending"
    /\ boots' = [boots EXCEPT ![b].st = "resolved"]
    /\ thebe' = instance
    /\ LET r0 == [Ready EXCEPT !.widget.exists = @ \/ mount]
           r1 == setupThebeEventListeners(r0, instance)
           \* monitorThebeStatus(), then startThebeStateChecker() in the
           \* listener of assets/js/thebe-config.js
           r2 == [r1 EXCEPT !.ui.monitor = "running"]
       IN  SetReady(IF "thebeConfig" \in Awaiting(b)
                    THEN [r2 EXCEPT !.ui.checker = "running", !.ui.checks = 0]
                    ELSE r2)
    /\ clicks' = [h \in Handlers |->
                    IF h \in Awaiting(b) THEN [clicks[h] EXCEPT !.pc = "done"]
                    ELSE clicks[h]]
    /\ btn' = IF "navbar" \in Awaiting(b)
              THEN [btn EXCEPT !.display = "none"] ELSE btn
    /\ UNCHANGED <<editorVars, installed, pageVars, nav, extraVars, activated,
                   listeners, insideControls, thebeAPI>>

bootstrapCatch_Swallow(bt, b, err) ==
    [bt EXCEPT ![b].st = "resolved",
               ![b].err = err,
               ![b].status = IF isCorsError(err) THEN "cors-error"
                             ELSE "failed"]

\* the catch block of bootstrapThebe
bootstrapCatch(bt, b, err) ==
    [bt EXCEPT ![b].st = "rejected",
               ![b].err = err,
               ![b].status = IF isCorsError(err) THEN "cors-error"
                             ELSE "failed",
               ![b].thrown = err]

\* window.thebe.bootstrap rejects: the catch block of bootstrapThebe, then
\* the catch block of the listener that awaits it
BootstrapRejects(b, err) ==
    /\ boots[b].st = "pending"
    /\ boots' = bootstrapCatch(boots, b, err)
    /\ statusWidget' = updateStatusWidget(statusWidget, boots'[b].status)
    /\ LET failed == {h \in Awaiting(b) : boots'[b].st = "rejected"}
           passed == Awaiting(b) \ failed
       IN  /\ clicks' =
                [h \in Handlers |->
                    IF h \in failed THEN [clicks[h] EXCEPT !.pc = "reverted"]
                    ELSE IF h \in passed THEN [clicks[h] EXCEPT !.pc = "done"]
                    ELSE clicks[h]]
           /\ btn' =
                LET b1 == IF "thebeConfig" \in failed
                          THEN [btn EXCEPT !.display = ""] ELSE btn
                    b2 == IF "navbar" \in failed THEN navbarRestore(b1)
                          ELSE IF "navbar" \in passed
                          THEN [b1 EXCEPT !.display = "none"] ELSE b1
                IN  b2
           /\ activated' =
                IF "navbar" \in failed
                   \/ ("thebeConfig" \in failed /\ insideControls)
                THEN FALSE ELSE activated
    /\ UNCHANGED <<editorVars, installed, pageVars, thebe, thebeState,
                   lastUIStatus, ui, nav, extraVars, listeners, insideControls, thebeAPI>>

\* the debounce timer of updateStatusWidget fires
StatusTimer ==
    /\ statusWidget.timer # "none"
    /\ statusWidget' = applyStatus(statusWidget)
    /\ UNCHANGED <<editorVars, installed, pageVars, thebe, thebeState, boots,
                   lastUIStatus, ui, nav, extraVars, btn, activated, listeners, insideControls,
                   thebeAPI, clicks>>

\* the pages an activate button is on: with its own button only, inside a
\* .thebe-controls or not; with the navbar, whose listener is added before
\* or after assets/js/thebe-config.js has run, or without that script
ActivatePages ==
    { [listeners |-> {"thebeConfig"}, thebeAPI |-> TRUE, inside |-> TRUE],
      [listeners |-> {"thebeConfig"}, thebeAPI |-> TRUE, inside |-> FALSE],
      [listeners |-> {"navbar"}, thebeAPI |-> TRUE, inside |-> FALSE],
      [listeners |-> {"navbar"}, thebeAPI |-> FALSE, inside |-> FALSE],
      [listeners |-> {"navbar", "thebeConfig"}, thebeAPI |-> TRUE,
       inside |-> FALSE] }

InitBoot ==
    /\ lines = << <<>> >>
    /\ sels = <<[anchor |-> Pos(0, 0), head |-> Pos(0, 0)]>>
    /\ mode = PythonMode
    /\ orig = [lines |-> lines, sels |-> sels]
    /\ pre = orig
    /\ n = 0
    /\ used = <<>>
    /\ installed = "none"
    /\ PageIdle
    /\ NavbarIdle
    /\ ExtraIdle
    /\ thebe = NoThebe
    /\ thebeState = InitialThebeState
    /\ boots = [b \in Boots |-> IdleBoot]
    /\ \E exists \in BOOLEAN :
         statusWidget = [exists |-> exists, statuses |-> {},
                         loading |-> FALSE, ready |-> FALSE, timer |-> "none"]
    /\ lastUIStatus = "null"
    /\ ui = InitialUI
    /\ btn = OriginalButton
    /\ activated = FALSE
    /\ \E p \in ActivatePages :
         /\ listeners = p.listeners
         /\ thebeAPI = p.thebeAPI
         /\ insideControls = p.inside
    /\ clicks = [h \in Handlers |-> IdleClick]

NextBoot ==
    \/ Click
    \/ ScriptLoads
    \/ ApiPoll
    \/ ApiTimeout
    \/ \E b \in Boots, instance \in Instances, mount \in BOOLEAN :
         BootstrapResolves(b, instance, mount)
    \/ \E b \in Boots, err \in Rejections : BootstrapRejects(b, err)
    \/ StatusTimer

SpecBoot == InitBoot /\ [][NextBoot]_vars

(***************************************************************************)
(* After a successful bootstrap: the events of the Thebe instance, the     *)
(* timers that watch it, and the server, session and kernel themselves.    *)
(***************************************************************************)
StatusFrame ==
    UNCHANGED <<editorVars, installed, pageVars, boots, nav, extraVars, btn,
                activated,
                listeners, insideControls, thebeAPI, clicks>>

\* thebe.events emits 'status'
StatusEvent(data) ==
    /\ data.object => thebe.session # "null"
    /\ SetReady(handleThebeStatusEvent(Ready, data))
    /\ UNCHANGED thebe
    /\ StatusFrame

\* thebe.events emits 'error'
ErrorEvent(subject) ==
    /\ SetReady(handleThebeErrorEvent(Ready, subject))
    /\ UNCHANGED thebe
    /\ StatusFrame

\* the server becomes ready: thebe.server.ready resolves
ServerReady ==
    /\ thebe.server = "starting"
    /\ thebe' = [thebe EXCEPT !.server = "ready"]
    /\ SetReady(serverReadyThen([Ready EXCEPT !.inst = thebe']))
    /\ StatusFrame

\* a session starts, with a kernel or before it has one
SessionStarts(withKernel) ==
    /\ thebe.session = "null"
    /\ thebe' = [thebe EXCEPT
                   !.session = IF withKernel THEN "kernel" ELSE "noKernel",
                   !.kernelStatus = IF withKernel THEN "starting" ELSE @]
    /\ UNCHANGED <<thebeState, lastUIStatus, statusWidget>>
    /\ ui' = [ui EXCEPT !.calls = {}]
    /\ StatusFrame

\* the session gets its kernel
KernelStarts ==
    /\ thebe.session = "noKernel"
    /\ thebe' = [thebe EXCEPT !.session = "kernel", !.kernelStatus = "starting"]
    /\ UNCHANGED <<thebeState, lastUIStatus, statusWidget>>
    /\ ui' = [ui EXCEPT !.calls = {}]
    /\ StatusFrame

\* the timer of checkForSession, which runs while no session is stored
SessionCheck ==
    /\ ~thebeState.session
    /\ SetReady(checkForSession(Ready))
    /\ UNCHANGED thebe
    /\ StatusFrame

\* the kernel changes its status; the listener runs if one is connected
KernelStatusChanged(status) ==
    /\ thebe.session = "kernel"
    /\ thebe' = [thebe EXCEPT !.kernelStatus = status]
    /\ IF thebeState.connected
       THEN SetReady(kernelStatusChanged([Ready EXCEPT !.inst = thebe'],
                                         status))
       ELSE /\ UNCHANGED <<thebeState, lastUIStatus, statusWidget>>
            /\ ui' = [ui EXCEPT !.calls = {}]
    /\ StatusFrame

\* Thebe adds run buttons to the document; the MutationObserver of
\* setupMutationObserver calls the debounced callback with these mutations
RunButtonsAdded(batch) ==
    /\ batch # {}
    /\ \A b \in batch : ui.runButtons[b] = "absent"
    /\ ui' = [ui EXCEPT
                !.runButtons = [b \in Buttons |->
                                  IF b \in batch THEN "visible" ELSE @[b]],
                !.debounce = debounce(@, batch),
                !.calls = {}]
    /\ UNCHANGED <<thebe, thebeState, lastUIStatus, statusWidget>>
    /\ StatusFrame

\* the 100 ms timer of the debounced observer callback fires
ObserverFires ==
    /\ ui.debounce.armed
    /\ SetReady(runButtonsAdded(
                    [Ready EXCEPT !.ui.debounce = [armed |-> FALSE,
                                                   args |-> {}]],
                    ui.debounce.args))
    /\ UNCHANGED thebe
    /\ StatusFrame

\* the interval of monitorThebeStatus
MonitorTick ==
    /\ ui.monitor = "running"
    /\ SetReady(statusChecker(Ready))
    /\ UNCHANGED thebe
    /\ StatusFrame

\* one of the 10 s timers started by the ticks that found Thebe ready
MonitorStop(last) ==
    /\ ui.stopPending
    /\ SetReady([Ready EXCEPT
                    !.ui.monitor = IF isThebeReady(Ready) THEN "stopped"
                                   ELSE @,
                    !.ui.stopPending = ~last])
    /\ UNCHANGED thebe
    /\ StatusFrame

\* the interval of startThebeStateChecker
StateCheckerTick ==
    /\ ui.checker = "running"
    /\ SetReady(stateChecker(Ready))
    /\ UNCHANGED thebe
    /\ StatusFrame

KernelStatuses == {"starting", "idle", "busy", "dead", "disconnected"}

\* the page when bootstrapThebe has returned from its first call
InitStatus ==
    /\ lines = << <<>> >>
    /\ sels = <<[anchor |-> Pos(0, 0), head |-> Pos(0, 0)]>>
    /\ mode = PythonMode
    /\ orig = [lines |-> lines, sels |-> sels]
    /\ pre = orig
    /\ n = 0
    /\ used = <<>>
    /\ installed = "none"
    /\ PageIdle
    /\ NavbarIdle
    /\ ExtraIdle
    /\ boots = [b \in Boots |->
                 IF b = 1 THEN [IdleBoot EXCEPT !.st = "resolved",
                                                !.external = 1]
                 ELSE IdleBoot]
    /\ btn = [OriginalButton EXCEPT !.display = "none"]
    /\ activated = TRUE
    /\ listeners = {"thebeConfig"}
    /\ insideControls = TRUE
    /\ thebeAPI = TRUE
    /\ clicks = [h \in Handlers |->
                  IF h = "thebeConfig" THEN [pc |-> "done", boot |-> 1]
                  ELSE IdleClick]
    /\ \E instance \in Instances :
         LET r0 == [ts |-> InitialThebeState, inst |-> NoThebe,
                    last |-> "null",
                    widget |-> [exists |-> TRUE, statuses |-> {},
                                loading |-> FALSE, ready |-> FALSE,
                                timer |-> "none"],
                    ui |-> [InitialUI EXCEPT !.monitor = "running",
                                             !.checker = "running"],
                    controls |-> TRUE]
             r == setupThebeEventListeners(r0, instance)
         IN  /\ thebe = instance
             /\ thebeState = r.ts
             /\ lastUIStatus = r.last
             /\ statusWidget = r.widget
             /\ ui = r.ui

NextStatus ==
    \/ \E data \in StatusEvents : StatusEvent(data)
    \/ \E subject \in {"server", "session", "kernel"} : ErrorEvent(subject)
    \/ ServerReady
    \/ \E withKernel \in BOOLEAN : SessionStarts(withKernel)
    \/ KernelStarts
    \/ SessionCheck
    \/ \E status \in KernelStatuses : KernelStatusChanged(status)
    \/ \E batch \in SUBSET Buttons : RunButtonsAdded(batch)
    \/ ObserverFires
    \/ MonitorTick
    \/ \E last \in BOOLEAN : MonitorStop(last)

SpecStatus == InitStatus /\ [][NextStatus]_vars

\* The user interface after bootstrap: the two intervals, the run-button
\* observer and the kernel's status changes.
NextUI ==
    \/ \E status \in KernelStatuses : KernelStatusChanged(status)
    \/ \E batch \in SUBSET Buttons : RunButtonsAdded(batch)
    \/ ObserverFires
    \/ MonitorTick
    \/ \E last \in BOOLEAN : MonitorStop(last)
    \/ StateCheckerTick

SpecUI == InitStatus /\ [][NextUI]_vars

\* another script calls window.thebeAPI.updateUIForStatus
ApiUpdateUI(status) ==
    /\ thebeAPI
    /\ SetReady(updateUIForStatus(Ready, status))
    /\ UNCHANGED thebe
    /\ StatusFrame

\* Activation together with the timers it starts and the exported
\* updateUIForStatus.
NextClasses ==
    \/ NextBoot
    \/ MonitorTick
    \/ \E last \in BOOLEAN : MonitorStop(last)
    \/ StateCheckerTick
    \/ \E status \in {"ready", "loading", "failed"} : ApiUpdateUI(status)

SpecClasses == InitBoot /\ [][NextClasses]_vars

(***************************************************************************)
(* The navbar and the status widget of Thebe.                              *)
(***************************************************************************)
NavFrame ==
    UNCHANGED <<editorVars, installed, pageVars, thebe, thebeState, boots,
                statusWidget, lastUIStatus, ui, extraVars, btn, activated,
                listeners, insideControls, thebeAPI, clicks>>

\* initializeNavbar: new CustomNavbar()
NavbarCreated ==
    /\ ~nav.created
    /\ nav' = moveStatusToNavbar(nav)
    /\ NavFrame

\* Thebe or the page adds a .thebe-status element outside the navbar, shown
\* or hidden; a running observer gets the mutation record
WidgetAppears(w, display) ==
    /\ nav.widgets[w].at = "absent"
    /\ nav' = [nav EXCEPT
                 !.widgets[w] = [at |-> "outside", display |-> display],
                 !.records = @ \/ nav.observer = "observing"]
    /\ NavFrame

\* the callback of the MutationObserver of moveStatusToNavbar
ObserverCallback ==
    /\ nav.observer = "observing"
    /\ nav.records
    /\ LET r == attemptMove(nav)
       IN  nav' = [r.nav EXCEPT
                     !.records = FALSE,
                     !.observer = IF r.moved THEN "disconnected" ELSE @]
    /\ NavFrame

\* the 100 ms interval of moveStatusToNavbar
PollTick ==
    /\ nav.poll = "running"
    /\ LET pollCount == nav.pollCount + 1
           r == attemptMove(nav)
       IN  nav' = IF r.moved
                  THEN [r.nav EXCEPT !.pollCount = pollCount,
                                     !.poll = "stopped",
                                     !.observer = "disconnected",
                                     !.records = FALSE]
                  ELSE IF pollCount > PollLimit
                  THEN [nav EXCEPT !.pollCount = pollCount,
                                   !.poll = "stopped",
                                   !.warned = TRUE]
                  ELSE [nav EXCEPT !.pollCount = pollCount]
    /\ NavFrame

InitNavbar ==
    /\ lines = << <<>> >>
    /\ sels = <<[anchor |-> Pos(0, 0), head |-> Pos(0, 0)]>>
    /\ mode = PythonMode
    /\ orig = [lines |-> lines, sels |-> sels]
    /\ pre = orig
    /\ n = 0
    /\ used = <<>>
    /\ installed = "none"
    /\ PageIdle
    /\ BootIdle
    \* the .thebe-status elements of the page itself, shown or hidden
    /\ \E widgets \in [Widgets -> {NoWidget,
                                    [at |-> "outside", display |-> ""],
                                    [at |-> "outside", display |-> "none"]}] :
         nav = [IdleNav EXCEPT !.widgets = widgets]
    /\ ExtraIdle

NextNavbar ==
    \/ NavbarCreated
    \/ \E w \in Widgets, display \in {"", "none"} : WidgetAppears(w, display)
    \/ ObserverCallback
    \/ PollTick

SpecNavbar == InitNavbar /\ [][NextNavbar]_vars

\* the observer's callback and the interval's ticks run
SpecNavbarFair ==
    /\ InitNavbar
    /\ [][NextNavbar]_vars
    /\ WF_vars(ObserverCallback)
    /\ WF_vars(PollTick)

(***************************************************************************)
(* Properties.  In a state with n >= 1, pre holds the buffer and the       *)
(* selections the last toggle started from, used the marker it worked with.*)
(***************************************************************************)
\* the last toggle had one selection
OneSelection == n >= 1 /\ Len(pre.sels) = 1
\* first and last line of that selection, and whether it was an empty cursor
PreStart == SelFrom(pre.sels[1]).line
PreEnd == SelTo(pre.sels[1]).line
PreCursor == SelFrom(pre.sels[1]) = SelTo(pre.sels[1])
PreRange == PreStart..PreEnd

\* C1's case: one toggle of ["a", "# b"] with marker '#' and a selection
\* that spans both lines
C1_Case ==
    /\ n = 1
    /\ OneSelection
    /\ pre.lines = << <<"a">>, <<"#", " ", "b">> >>
    /\ used = Hash
    /\ PreStart = 0
    /\ PreEnd = 1

\* C1 as stated: toggling ["a", "# b"] over both lines yields exactly
\* ["# a", "# b"].
C1_Original ==
    C1_Case => lines = << <<"#", " ", "a">>, <<"#", " ", "b">> >>

\* C1 amended: toggling ["a", "# b"] over both lines comments both lines,
\* the already commented one a second time: it yields ["# a", "# # b"].
C1_MajorityExample ==
    C1_Case => lines = << <<"#", " ", "a">>, <<"#", " ", "#", " ", "b">> >>

C1_Witness == C1_Case

\* first and last line of the selection the run started with
OrigStart == SelFrom(orig.sels[1]).line
OrigEnd == SelTo(orig.sels[1]).line
OrigCursor == SelFrom(orig.sels[1]) = SelTo(orig.sels[1])
OrigLine(l) == orig.lines[l + 1]

\* the line without the whitespace at its end
DropTrailing(text) == SubSeq(text, 1, Len(text) - TrailLen(text))

\* indentation, marker, exactly one space, then a text that begins with
\* neither whitespace nor the marker
Canonical(text, commentString) ==
    LET rest == Slice(text, IndentLen(text))
        content == Slice(rest, Len(commentString) + 1)
    IN  /\ StartsWith(rest, commentString \o <<" ">>)
        /\ content # <<>>
        /\ content[1] \notin WS
        /\ ~StartsWith(content, commentString)

\* C2's case: two toggles with an empty cursor on the only line of the
\* buffer, which is not blank
C2_Case ==
    /\ n = 2
    /\ Len(orig.lines) = 1
    /\ Len(orig.sels) = 1
    /\ OrigCursor
    /\ NonBlank(OrigLine(0))

\* C2 as stated: toggling twice with an empty cursor on a non-blank single
\* line L, commented or not, leaves the line equal to L.
C2_Original == C2_Case => lines = orig.lines

\* the lines two toggles bring back: not commented, or commented in the form
\* the command itself writes; the manual fallback trims what it comments
C2_Restorable(text, commentString) ==
    /\ ~isCommented(text, commentString) \/ Canonical(text, commentString)
    /\ installed = "manual" => TrailLen(text) = 0

\* C2 amended: toggling twice with an empty cursor on a non-blank single
\* line L leaves the line equal to L exactly when L is not commented or is
\* commented as indentation + marker + one space + a text that begins with
\* neither whitespace nor the marker (and, under the manual fallback, L has
\* no trailing whitespace).
C2_RoundTrip ==
    C2_Case => (lines = orig.lines <=> C2_Restorable(OrigLine(0), used))

C2_Witness ==
    /\ C2_Case
    /\ lines = orig.lines
    /\ pre.lines # orig.lines
    /\ isCommented(OrigLine(0), used)

\* a line up to the tolerated differences: without the whitespace at its
\* end and without the whitespace that follows a leading marker
C3_Normal(text, commentString) ==
    LET t == DropTrailing(text)
        rest == Slice(t, IndentLen(t))
        after == Slice(rest, Len(commentString))
    IN  IF StartsWith(rest, commentString)
        THEN Indent(t) \o commentString \o Slice(after, IndentLen(after))
        ELSE t

\* C3's case: two toggles of a buffer with one selection
C3_Case ==
    /\ n = 2
    /\ Len(orig.sels) = 1

\* C3 as stated: toggling twice on the same range returns every line to its
\* original content, up to whitespace after a comment marker or at the end
\* of the line.
C3_Original ==
    C3_Case =>
        \A l \in 0..(Len(lines) - 1) :
            C3_Normal(getLine(lines, l), used) = C3_Normal(OrigLine(l), used)

\* the range the run started with has a non-blank line without the marker
C3_CommentsFirst ==
    \E l \in OrigStart..OrigEnd :
        NonBlank(OrigLine(l)) /\ ~isCommented(OrigLine(l), used)

\* every non-blank line of that range is commented in the canonical form
C3_AllCanonical ==
    \A l \in OrigStart..OrigEnd :
        NonBlank(OrigLine(l)) => Canonical(OrigLine(l), used)

\* C3 amended: toggling twice on the same range returns the buffer to
\* byte-identical content when the first toggle comments the range (some
\* non-blank line lacks the marker) or every non-blank line of the range is
\* commented in the canonical form; under the manual fallback the non-blank
\* lines of the range come back without their trailing whitespace.
C3_RoundTrip ==
    (C3_Case /\ (C3_CommentsFirst \/ C3_AllCanonical)) =>
        /\ Len(lines) = Len(orig.lines)
        /\ \A l \in 0..(Len(lines) - 1) :
               getLine(lines, l) =
                   IF /\ installed = "manual"
                      /\ l \in OrigStart..OrigEnd
                      /\ NonBlank(OrigLine(l))
                   THEN DropTrailing(OrigLine(l))
                   ELSE OrigLine(l)

C3_Witness ==
    /\ C3_Case
    /\ C3_CommentsFirst
    /\ OrigStart < OrigEnd
    /\ \E l \in OrigStart..OrigEnd : isCommented(OrigLine(l), used)
    /\ lines = orig.lines
    /\ pre.lines # orig.lines

PreLine(l) == pre.lines[l + 1]

\* the text of a line after its indentation
AfterIndent(text) == SubSeq(text, IndentLen(text) + 1, Len(text))

\* the marker is the first non-whitespace token of the line
HasMarker(text, commentString) ==
    /\ Len(AfterIndent(text)) >= Len(commentString)
    /\ \A i \in 1..Len(commentString) :
           AfterIndent(text)[i] = commentString[i]

\* new is old with the marker and one space put after the indentation (the
\* manual fallback also drops the whitespace at the end of the line)
IsCommentedFormOf(new, old, commentString) ==
    \/ new = Indent(old) \o commentString \o <<" ">> \o AfterIndent(old)
    \/ /\ installed = "manual"
       /\ new = Indent(old) \o commentString \o <<" ">> \o
                    DropTrailing(AfterIndent(old))

\* new is old without the marker after the indentation and without the one
\* whitespace character after the marker, if there is one
IsUncommentedFormOf(new, old, commentString) ==
    LET k == IndentLen(old) + Len(commentString)
        w == IF k < Len(old) /\ old[k + 1] \in WS THEN 1 ELSE 0
    IN  /\ HasMarker(old, commentString)
        /\ new = Indent(old) \o SubSeq(old, k + w + 1, Len(old))

\* some non-blank line of the range lacks the marker
C4_SomeLineLacksMarker ==
    \E l \in PreRange :
        NonBlank(PreLine(l)) /\ ~HasMarker(PreLine(l), used)

\* C4: the lines from.line..to.line of the selection (the cursor line of an
\* empty one) are all commented if some non-blank line among them lacks the
\* marker as its first non-whitespace token, and all uncommented otherwise:
\* one decision for the range, never line by line.
C4_Decision ==
    OneSelection =>
        /\ Len(lines) = Len(pre.lines)
        /\ \A l \in PreRange :
               IF ~NonBlank(PreLine(l)) THEN getLine(lines, l) = PreLine(l)
               ELSE IF C4_SomeLineLacksMarker
               THEN IsCommentedFormOf(getLine(lines, l), PreLine(l), used)
               ELSE IsUncommentedFormOf(getLine(lines, l), PreLine(l), used)

\* a range of several lines, some commented and some not, has been toggled
C4_Witness ==
    /\ OneSelection
    /\ PreStart < PreEnd
    /\ C4_SomeLineLacksMarker
    /\ \E l \in PreRange : HasMarker(PreLine(l), used)
    /\ \A l \in PreRange : HasMarker(getLine(lines, l), used)

\* every non-blank line of the range is commented
C5_AllCommented ==
    \A l \in PreRange : NonBlank(PreLine(l)) => HasMarker(PreLine(l), used)

\* C5 as stated: a range whose non-blank lines are all commented has no
\* non-blank line that starts with the marker after the toggle; any other
\* range has every non-blank line start with the marker after it.
C5_Original ==
    OneSelection =>
        \A l \in PreRange :
            IF C5_AllCommented
            THEN NonBlank(getLine(lines, l)) =>
                     ~HasMarker(getLine(lines, l), used)
            ELSE NonBlank(PreLine(l)) => HasMarker(getLine(lines, l), used)

\* what follows the first marker of a commented line
AfterMarker(text, commentString) ==
    SubSeq(text, IndentLen(text) + Len(commentString) + 1, Len(text))

\* C5 amended: a range whose non-blank lines are all commented loses one
\* marker per line, so that a line of it starts with the marker after the
\* toggle exactly when a second marker followed its first one; any other
\* range has every non-blank line start with the marker after the toggle.
C5_Result ==
    OneSelection =>
        \A l \in PreRange :
            IF C5_AllCommented
            THEN HasMarker(getLine(lines, l), used) <=>
                     /\ NonBlank(PreLine(l))
                     /\ HasMarker(AfterMarker(PreLine(l), used), used)
            ELSE NonBlank(PreLine(l)) => HasMarker(getLine(lines, l), used)

\* a fully commented range of several lines has been uncommented
C5_Witness ==
    /\ OneSelection
    /\ PreStart < PreEnd
    /\ C5_AllCommented
    /\ \A l \in PreRange : NonBlank(PreLine(l))
    /\ \E l \in PreRange : NonBlank(getLine(lines, l))
    /\ \A l \in PreRange : ~HasMarker(getLine(lines, l), used)

\* what the self-contained command makes of the buffer and the selections
\* the last toggle started from
C6_Reference == toggleComment(pre.lines, pre.sels, mode).buf

C7_TableMarker(m) ==
    IF toLowerCase(m.name) \in DOMAIN modeMap
    THEN modeMap[toLowerCase(m.name)]
    ELSE Hash

\* C7: the marker a toggle works with is the table's entry for the mode's
\* name ('//' for javascript, '#' for python), and '#' for an absent mode, a
\* mode without a name and a name that is not in the table.
C7_MarkerSelection == n >= 1 => used = C7_TableMarker(mode)

\* C8: a blank line (empty or whitespace only) inside the toggled range is
\* the same after the toggle, whether the range was commented or uncommented
\* and also when the range is an empty cursor on that line.
C8_BlankLines ==
    OneSelection =>
        /\ Len(lines) = Len(pre.lines)
        /\ \A l \in PreRange :
               ~NonBlank(PreLine(l)) => getLine(lines, l) = PreLine(l)

\* a range with a whitespace-only line and a line that the toggle changed
C8_Witness ==
    /\ OneSelection
    /\ \E l \in PreRange : PreLine(l) # <<>> /\ ~NonBlank(PreLine(l))
    /\ \E l \in PreRange : getLine(lines, l) # PreLine(l)

\* the last toggle commented its range, the one before it too
C9_Commented == OneSelection /\ C4_SomeLineLacksMarker
C9_CommentedFirst == n = 2 /\ Len(orig.sels) = 1 /\ C3_CommentsFirst

\* C9 as stated: commenting a non-blank line puts marker + one space after
\* its leading whitespace and keeps the rest of the line, and uncommenting
\* the result gives the line back exactly.
C9_Original ==
    /\ C9_Commented =>
           \A l \in PreRange :
               NonBlank(PreLine(l)) =>
                   getLine(lines, l) =
                       Indent(PreLine(l)) \o used \o <<" ">> \o
                           AfterIndent(PreLine(l))
    /\ C9_CommentedFirst =>
           \A l \in OrigStart..OrigEnd : getLine(lines, l) = OrigLine(l)

\* the part of a line that a copy keeps when it comments the line
C9_Kept(text) ==
    IF installed = "manual" THEN DropTrailing(text) ELSE text

\* C9 amended: commenting a non-blank line puts marker + one space after its
\* leading whitespace and keeps the leading whitespace and the rest of the
\* line, and uncommenting the result gives the line back exactly; the manual
\* fallback keeps the rest without its trailing whitespace, and uncommenting
\* its result gives the line without its trailing whitespace.
C9_Indentation ==
    /\ C9_Commented =>
           \A l \in PreRange :
               NonBlank(PreLine(l)) =>
                   getLine(lines, l) =
                       Indent(PreLine(l)) \o used \o <<" ">> \o
                           C9_Kept(AfterIndent(PreLine(l)))
    /\ C9_CommentedFirst =>
           \A l \in OrigStart..OrigEnd :
               getLine(lines, l) =
                   IF NonBlank(OrigLine(l)) THEN C9_Kept(OrigLine(l))
                   ELSE OrigLine(l)

\* "    x = 1" has become "    # x = 1"
C9_Witness ==
    /\ C9_Commented
    /\ pre.lines = << <<" ", " ", " ", " ", "x", " ", "=", " ", "1">> >>
    /\ lines =
           << <<" ", " ", " ", " ", "#", " ", "x", " ", "=", " ", "1">> >>

\* the last toggle uncommented its range
C10_Uncommented == OneSelection /\ ~C4_SomeLineLacksMarker

C11_Delta(l) == Len(getLine(lines, l)) - Len(PreLine(l))

\* where the last toggle should have left a selection endpoint
C11_Restored(pos) == Pos(pos.line, Max(0, pos.ch + C11_Delta(pos.line)))

\* the selections of before the last toggle, restored (selections that have
\* come to overlap are one selection in CodeMirror)
C11_RestoredSelections ==
    normalizeSelection(
        [k \in 1..Len(pre.sels) |->
            [anchor |-> C11_Restored(pre.sels[k].anchor),
             head |-> C11_Restored(pre.sels[k].head)]])

\* C11: after a toggle with the self-contained command every selection's
\* anchor and head are on the line they were on, at the old column plus the
\* change of length of that line, not below 0.
C11_CursorRestoration ==
    (n >= 1 /\ installed = "selfContained") =>
        sels = C11_RestoredSelections

\* C12's case: the run started with one line that is not blank and not
\* commented, and the cursor at (0,0)
C12_Case ==
    /\ n >= 1
    /\ Len(orig.lines) = 1
    /\ orig.sels = <<[anchor |-> Pos(0, 0), head |-> Pos(0, 0)]>>
    /\ NonBlank(OrigLine(0))
    /\ ~isCommented(OrigLine(0), used)

\* the first toggle has made the line a line with the marker
C12_FirstToggle ==
    (C12_Case /\ n = 1) =>
        /\ Len(lines) = 1
        /\ lines # orig.lines
        /\ HasMarker(getLine(lines, 0), used)

C13_ExtraKeys ==
    script = "selfContained" =>
        \A e \in configured :
            \A k \in ToggleKeys :
                /\ k \in DOMAIN extraKeys[e].keys
                /\ extraKeys[e].keys[k] = CommandName("toggleComment")

\* C14: setOption('extraKeys', ...) is applied to an editor at most once,
\* whatever the sequence of sweeps, observer callbacks and console calls.
C14_NoDoubleBinding == \A e \in Editors : setOptions[e] <= 1

C16_ShortcutsPreserved ==
    \A e \in inDom :
        LET before == keys0[e].extraKeys.keys
            after == extraKeys[e].keys
        IN  /\ \A k \in DOMAIN before \ ToggleKeys :
                   k \in DOMAIN after /\ after[k] = before[k]
            /\ DOMAIN after \subseteq DOMAIN before \cup ToggleKeys
            /\ theme[e] = keys0[e].theme

\* a configured editor that had bindings of its own, that of 'Cmd-/' among
\* them, and one that had no key map
C16_Witness ==
    /\ \E e \in configured :
           /\ "Shift-Enter" \in DOMAIN keys0[e].extraKeys.keys
           /\ keys0[e].extraKeys.keys["Shift-Enter"] = CommandName("execute")
           /\ extraKeys[e].keys["Shift-Enter"] = CommandName("execute")
           /\ extraKeys[e].keys["Cmd-/"] # keys0[e].extraKeys.keys["Cmd-/"]
    /\ \E e \in configured : keys0[e].extraKeys = NullKeys

\* C17: a call of loadCodeMirrorCommentAddon whose script element failed to
\* load, or loaded without defining toggleComment, has resolved true with a
\* toggleComment command installed; a failed load is logged.
C17_GracefulDegradation ==
    \A l \in Loads :
        /\ loads[l].st \in {"idle", "waiting", "fetching", "done"}
        /\ loads[l].how \in {"onerror", "onloadWithout"} =>
               /\ loads[l].st = "done"
               /\ loads[l].result
               /\ cmGlobal
               /\ installed \in {"manual", "addon"}
        /\ loads[l].how = "onerror" =>
               "Failed to load CodeMirror comment addon" \in errors

\* the script failed to load, the manual toggle is the command and the
\* caller has gone on to set up the editors
C17_Witness ==
    \E l \in Loads :
        /\ loads[l].how = "onerror"
        /\ loads[l].result
        /\ installed = "manual"
        /\ observers > 0

\* the classification C18 describes: the message mentions CORS, or the string
\* form mentions CORS or Access-Control
C18_Status(err) ==
    IF \/ hasMessage(err) /\ \E w \in {CORS, cors} : includes(err.text, w)
       \/ \E w \in {CORS, AccessControl} : includes(toString(err), w)
    THEN "cors-error" ELSE "failed"

C19_Handled(pc) ==
    /\ \A h \in Handlers : clicks[h].pc \in {"idle", pc}
    /\ \E h \in Handlers : clicks[h].pc = pc

C20_ReadinessPredicate ==
    /\ isThebeReady(Ready) <=> (/\ thebeState.isServerReady
                                /\ thebeState.isSessionReady
                                /\ thebeState.isKernelReady)
    /\ getThebeStatus(Ready) = "ready" <=> isThebeReady(Ready)

\* C30: after a successful bootstrap the delayed attempt and the watcher of
\* bootstrapThebe together call setupCodeMirrorCommentToggle at most once:
\* at most one MutationObserver for editors has been started.
C30_SetupOnce == script = "thebeConfig" => observers <= 1

\* C29: a click on the activate button starts bootstrapThebe at most once and
\* no bootstrap starts while another is in progress: at most one call of
\* bootstrapThebe is pending at any time.
C29_OneBootstrap == Cardinality({b \in Boots : boots[b].st = "pending"}) <= 1

\* the steps that end in updateConnectionState: a status event, the
\* server-ready promise, session detection, a kernel status change
C23_Signal ==
    \/ \E data \in StatusEvents : StatusEvent(data)
    \/ ServerReady
    \/ SessionCheck
    \/ \E status \in KernelStatuses : KernelStatusChanged(status)

\* C23: whenever a status event, the server-ready promise, session detection
\* or a kernel status change turns the readiness predicate from false to true,
\* updateConnectionState invokes onKernelReady, which switches the UI to
\* 'ready' and runs the initialization cells.
C23_BecomingReady ==
    [][(C23_Signal /\ ~isThebeReady(Ready) /\ isThebeReady(Ready)')
       => /\ {"onKernelReady", "runInitializationCells"} \subseteq ui'.calls
          /\ lastUIStatus' = "ready"]_vars

\* C24: whenever the readiness predicate turns from true to false (kernel
\* 'dead', kernel or session 'shutdown', an error event), onKernelNotReady is
\* invoked in that step, so that the UI leaves the 'ready' state without the
\* help of the periodic monitor.
C24_LosingReadiness ==
    [][(isThebeReady(Ready) /\ ~isThebeReady(Ready)')
       => "onKernelNotReady" \in ui'.calls]_vars

\* C25: after an 'error' event whose subject is server, session or kernel, and
\* after a session 'shutdown' status event, isThebeReady() returns false.
C25_ErrorsClearReadiness ==
    [][(\/ \E subject \in {"server", "session", "kernel"} :
              ErrorEvent(subject)
        \/ \E object \in BOOLEAN :
              StatusEvent([subject |-> "session", status |-> "shutdown",
                           object |-> object]))
       => ~isThebeReady(Ready)']_vars

\* C28: every run button added to the document after bootstrap is handled by
\* the run-button observer, also when the buttons arrive in batches less than
\* 100 ms apart: once no call of the debounced callback is pending, every
\* button of the document has been seen by it, and without a kernel it is
\* hidden.
C28_EveryButtonHandled ==
    ~ui.debounce.armed
    => \A b \in Buttons :
         ui.runButtons[b] # "absent"
         => /\ b \in ui.observed
            /\ thebe.session # "kernel" /\ lastUIStatus # "ready"
               => ui.runButtons[b] = "hidden"

\* C26: under every interleaving of the status monitor, updateConnectionState,
\* the run-button observer and the state checker, lastUIStatus agrees with the
\* ready/loading classes on the controls container, so that the early return
\* of updateUIForStatus skips no change.
C26_GuardSound ==
    \A status \in {"ready", "loading"} :
        lastUIStatus = status
        => ui.controls \cap {"ready", "loading"} = {status}

\* the status classes of the controls container
C27_ControlsClasses == ui.controls \cap {"ready", "loading", "failed"}

\* the debounce timer of updateStatusWidget(s) leaves thebe-status-s as the
\* only thebe-status-* class of the widget
C27_OneStatusClass ==
    [][(StatusTimer /\ statusWidget.exists)
       => statusWidget'.statuses = {statusWidget.timer}]_vars

C22_Calls ==
    IF installed = "selfContained"
    THEN toggleCommentCalls(pre.lines, pre.sels, mode)
    ELSE manualToggleCommentCalls(pre.lines, pre.sels, mode)

\* C22: all line replacements of one toggleComment invocation and the
\* restoration of the selections happen inside a single cm.operation: the
\* calls start with the operation and end with its end, every call between
\* is a replaceRange or a setSelections, and the editor shows no buffer but
\* the final one.
C22_AtomicEdit ==
    n > 0
    => LET calls == C22_Calls
       IN  /\ Len(calls) >= 2
           /\ calls[1].fn = "operation"
           /\ calls[Len(calls)].fn = "endOperation"
           /\ \A k \in 2..(Len(calls) - 1) :
                 calls[k].fn \in {"replaceRange", "setSelections"}
           /\ Rendered(calls, 0) = <<lines>>

\* a key press of the self-contained command that replaced two lines and
\* then set the selections
C22_Witness ==
    /\ n > 0
    /\ installed = "selfContained"
    /\ LET calls == C22_Calls
       IN  /\ Cardinality({k \in 1..Len(calls) :
                              calls[k].fn = "replaceRange"}) >= 2
           /\ \E k \in 1..Len(calls) : calls[k].fn = "setSelections"
           /\ \E k \in 1..Len(calls) :
                 calls[k].fn = "replaceRange" /\ calls[k].buf # lines

\* widget w is in the navbar's .thebe-status-container and not hidden
C21_Relocated(w) ==
    nav.widgets[w] = [at |-> "navbar", display |-> ""]

\* an element inside the navbar is never moved again
C21_NeverMovedAgain ==
    [][\A w \in Widgets :
          nav.widgets[w].at = "navbar" => nav'.widgets[w].at = "navbar"]_vars

C31_SameLine ==
    /\ Len(pre.sels) >= 2
    /\ \A k \in 1..Len(pre.sels) :
         /\ SelFrom(pre.sels[k]).line = SelFrom(pre.sels[1]).line
         /\ SelTo(pre.sels[k]).line = SelFrom(pre.sels[1]).line

\* C31: with several selections one toggleComment invocation rewrites each
\* line at most once: after a key press with all selections on one line the
\* buffer is what the first of them alone would have made of it.
C31_EachLineOnce ==
    (n > 0 /\ installed = "selfContained" /\ C31_SameLine)
    => lines = toggleComment(pre.lines, <<pre.sels[1]>>, mode).buf

\* the selections toggleComment passes to cm.setSelections at the last key
\* press
C32_NewSelections ==
    ToggleSelections(pre.lines, pre.sels, 1, <<>>, getCommentString(mode)).sels

C32_InBounds(pos) == pos.ch >= 0 /\ pos.ch <= Len(getLine(lines, pos.line))

\* selection k shares no line with another selection
C32_Alone(k) ==
    \A j \in 1..Len(pre.sels) :
        j # k => \/ SelTo(pre.sels[j]).line < SelFrom(pre.sels[k]).line
                 \/ SelFrom(pre.sels[j]).line > SelTo(pre.sels[k]).line

C33_Touches(k, l) ==
    SelFrom(pre.sels[k]).line <= l /\ l <= SelTo(pre.sels[k]).line

\* new is old with the marker prefix put after or taken from after its
\* indentation
C33_PrefixChange(new, old) ==
    \/ IsCommentedFormOf(new, old, used)
    \/ IsUncommentedFormOf(new, old, used)

getKernelConnection(rs) ==
    \/ rs.ts.kernel
    \/ (rs.ts.session /\ rs.inst.session = "kernel")
    \/ rs.inst.session = "kernel"

\* restartKernel: kernel.restart() is called and its promise returned, or a
\* warning is logged and undefined returned
restartKernel(rs, a) ==
    IF getKernelConnection(rs)
    THEN [a EXCEPT !.asked = @ + 1, !.restarts = @ + 1, !.result = "promise"]
    ELSE [a EXCEPT !.asked = @ + 1, !.warnings = @ + 1, !.result = "undefined"]

\* executeCode: kernel.requestExecute({code}) is called and its promise
\* returned, or a warning is logged and undefined returned
executeCode(rs, a) ==
    IF getKernelConnection(rs)
    THEN [a EXCEPT !.executeCalls = @ + 1, !.executes = @ + 1,
                   !.result = "promise"]
    ELSE [a EXCEPT !.executeCalls = @ + 1, !.warnings = @ + 1,
                   !.result = "undefined"]

\* a restartAndRunAll that goes on to the wait without awaiting the restart
restartAndRunAll_NoAwait(rs, a) ==
    [restartKernel(rs, a) EXCEPT !.started = @ + 1, !.pc = "waiting"]

\* restartAndRunAll up to its first await: with a kernel it awaits the
\* promise of restart(); without one, awaiting undefined, it goes on to the
\* wait
restartAndRunAll(rs, a) ==
    LET called == restartKernel(rs, a)
    IN  IF called.result = "promise"
        THEN [called EXCEPT !.started = @ + 1, !.pc = "restarting"]
        ELSE [called EXCEPT !.started = @ + 1, !.skipped = @ + 1,
                            !.pc = "waiting"]

ActFrame == UNCHANGED <<editorVars, installed, pageVars, bootCore, bar, cfg>>

\* the restart button, the keyboard shortcut or window.thebeAPI.restartKernel
RestartKernelCall ==
    /\ act.asked < MaxCalls
    /\ act' = restartKernel(Ready, act)
    /\ ActFrame

\* window.thebeAPI.executeCode(code)
ExecuteCodeCall ==
    /\ act.executeCalls < MaxCalls
    /\ act' = executeCode(Ready, act)
    /\ ActFrame

\* the run-all button, the keyboard shortcut or window.thebeAPI.runAllCells
RunAllCellsCall ==
    /\ act.runs < MaxCalls
    /\ act' = [act EXCEPT !.runs = @ + 1]
    /\ ActFrame

\* the restart-and-run-all button or window.thebeAPI.restartAndRunAll
RestartAndRunAllCall ==
    /\ act.pc \in {"idle", "done", "failed"}
    /\ act.started < MaxCalls
    /\ act.asked < MaxCalls
    /\ act' = restartAndRunAll(Ready, act)
    /\ ActFrame

\* the promise of kernel.restart() resolves: the two-second wait begins
RestartResolves ==
    /\ act.pc = "restarting"
    /\ act' = [act EXCEPT !.resolved = @ + 1, !.pc = "waiting"]
    /\ ActFrame

\* the promise of kernel.restart() rejects: the await throws and
\* restartAndRunAll ends
RestartRejects ==
    /\ act.pc = "restarting"
    /\ act' = [act EXCEPT !.rejected = @ + 1, !.pc = "failed"]
    /\ ActFrame

\* the two seconds are over: this.runAllCells() is called
WaitElapses ==
    /\ act.pc = "waiting"
    /\ act' = [act EXCEPT !.ran = @ + 1, !.runs = @ + 1, !.pc = "done"]
    /\ ActFrame

NextActions ==
    \/ RestartKernelCall
    \/ ExecuteCodeCall
    \/ RunAllCellsCall
    \/ RestartAndRunAllCall
    \/ RestartResolves
    \/ RestartRejects
    \/ WaitElapses
    \/ KernelStarts
    \/ \E withKernel \in BOOLEAN : SessionStarts(withKernel)

SpecActions == InitStatus /\ [][NextActions]_vars

\* C34 as stated: every runAllCells that restartAndRunAll starts follows a
\* restart() promise that resolved, and a restartAndRunAll whose restart()
\* rejected runs no cell; restartKernel and executeCode call the kernel
\* once when there is a kernel connection, and otherwise warn and return
\* undefined
C34_Original ==
    /\ act.ran <= act.resolved
    /\ act.ran + act.rejected
         + (IF act.pc \in {"restarting", "waiting"} THEN 1 ELSE 0) = act.started
    /\ act.restarts + act.executes + act.warnings = act.asked + act.executeCalls

\* C34, amended: every runAllCells that restartAndRunAll starts follows
\* either a restart() promise that resolved or a restartKernel that found no
\* kernel connection and returned undefined, and in both cases the wait; a
\* restartAndRunAll whose restart() rejected runs no cell; restartKernel and
\* executeCode call the kernel once when there is a kernel connection, and
\* otherwise warn and return undefined
C34_RunsAfterRestart ==
    /\ act.ran <= act.resolved + act.skipped
    /\ act.resolved + act.rejected <= act.restarts
    /\ act.ran + act.rejected
         + (IF act.pc \in {"restarting", "waiting"} THEN 1 ELSE 0) = act.started
    /\ act.restarts + act.executes + act.warnings = act.asked + act.executeCalls
    /\ (act.result = "undefined") => act.warnings > 0
    /\ (act.result = "promise") => act.restarts + act.executes > 0

\* one restartAndRunAll has run the cells after its restart resolved, and
\* another has ended on a rejected restart
C34_Witness ==
    /\ act.ran = 1
    /\ act.resolved = 1
    /\ act.rejected = 1
    /\ act.pc = "failed"

\* some .thebe-status element is inside the navbar
C35_Moved == \E w \in Widgets : nav.widgets[w].at = "navbar"

\* C35: once the status widget has been moved into the navbar, the
\* MutationObserver and the polling interval are both stopped; the poll
\* makes at most 51 ticks; and the warning that no status widget was found
\* is logged only when no widget was moved
C35_StoppedOnceMoved ==
    /\ C35_Moved => (nav.observer # "observing" /\ nav.poll # "running")
    /\ nav.pollCount <= PollLimit + 1
    /\ nav.warned => ~C35_Moved

\* the second part alone: the warning is logged only when no widget was moved
C35_WarnedOnlyUnmoved == nav.warned => ~C35_Moved

\* the part that holds: the poll makes at most 51 ticks
C35_PollBounded == nav.pollCount <= PollLimit + 1 /\ (nav.warned => nav.poll = "stopped")

\* ---------------------------------------------------------------------
\* configureCodeMirrorInstance when an access to extraKeys throws
\* ---------------------------------------------------------------------

\* where the try block of configureCodeMirrorInstance can throw: nowhere,
\* in the first cm.getOption, in cm.setOption before or after the editor
\* has stored the new key map, or in the cm.getOption of the verification
\* (assets/js/thebe-config.js only)
Faults == {"none", "getOption", "setOptionBefore", "setOptionAfter", "verify"}

ConfigureError == "Error configuring CodeMirror instance"

\* what a call leaves: the page, the return value, whether the catch block
\* has logged
Outcome(pg, returned, logged) ==
    [pg |-> pg, returned |-> returned, logged |-> logged]

\* cm.setOption('extraKeys', keyMap) that throws: the key map is stored or
\* not, the element is not marked
setOptionThrows(pg, e, keyMap, fault) ==
    IF fault = "setOptionAfter" THEN setOption(pg, e, keyMap) ELSE pg

\* a configureCodeMirrorInstance of the self-contained version that marks
\* the element before it sets the key map
faultySelfContained_MarkFirst(pg, e, fault) ==
    IF e \in pg.configured THEN Outcome(pg, "true", FALSE)
    ELSE IF fault = "none"
    THEN Outcome(configureInstanceSelfContained(pg, e), "true", FALSE)
    ELSE Outcome([pg EXCEPT !.configured = @ \cup {e}], "false", TRUE)

\* configureCodeMirrorInstance(element) of the self-contained version with
\* a throw at fault
faultySelfContained(pg, e, fault) ==
    IF e \in pg.configured THEN Outcome(pg, "true", FALSE)
    ELSE LET g == [pg EXCEPT !.cmGlobal = TRUE,
                             !.installed = IF ~pg.cmGlobal \/ @ = "none"
                                           THEN "selfContained" ELSE @]
         IN  CASE fault = "none" ->
                    Outcome(configureInstanceSelfContained(pg, e), "true", FALSE)
               [] fault = "getOption" -> Outcome(g, "false", TRUE)
               [] OTHER ->
                    Outcome(setOptionThrows(g, e,
                                withToggleKeys(g.extraKeys[e], toggleFn), fault),
                            "false", TRUE)

\* configureCodeMirrorInstance(element) of assets/js/thebe-config.js with a
\* throw at fault; the function has no return statement
faultyThebeConfig(pg, e, fault) ==
    IF e \in pg.configured THEN Outcome(pg, "undefined", FALSE)
    ELSE CASE fault = "none" ->
                Outcome(configureInstanceThebeConfig(pg, e), "undefined", FALSE)
           [] fault = "getOption" -> Outcome(pg, "undefined", TRUE)
           [] fault = "verify" ->
                Outcome(configureInstanceThebeConfig(pg, e), "undefined", TRUE)
           [] OTHER ->
                IF pg.cmGlobal /\ pg.installed # "none"
                THEN Outcome(setOptionThrows(pg, e,
                                 withToggleKeys(pg.extraKeys[e],
                                                CommandName("toggleComment")),
                                 fault),
                             "undefined", TRUE)
                ELSE LET g == [pg EXCEPT !.cmGlobal = TRUE]
                         m == IF g.installed = "none"
                              THEN implementManualCommentToggle(g) ELSE g
                     IN  Outcome(setOptionThrows(m, e,
                                     withToggleKeys(m.extraKeys[e], toggleFn),
                                     fault),
                                 "undefined", TRUE)

\* a call of configureCodeMirrorInstance for element e of the document, by
\* a sweep, an observer's timeout or the console, with a throw at fault
ConfigureCall(e, fault) ==
    /\ e \in inDom
    /\ setOptions[e] < MaxSetOptions
    /\ fault # "none" => e \notin configured
    /\ fault = "verify" => script = "thebeConfig"
    /\ LET r == IF script = "thebeConfig"
                THEN faultyThebeConfig(Page, e, fault)
                ELSE faultySelfContained(Page, e, fault)
       IN  /\ SetPage(r.pg)
           /\ errors' = IF r.logged THEN errors \cup {ConfigureError}
                        ELSE errors
           /\ cfg' = [element |-> e, fault |-> fault, returned |-> r.returned,
                      logged |-> r.logged, before |-> extraKeys[e]]
    /\ UNCHANGED <<editorVars, bootCore, act, bar, script, inDom, theme, keys0,
                   observers, timeouts, sweeps, loads, addonLoaded>>

NextFaults ==
    \/ RenderEditor
    \/ \E e \in Editors, fault \in Faults : ConfigureCall(e, fault)

SpecFaults == InitConfig /\ [][NextFaults]_vars

\* the last call threw
C36_Threw == cfg.element \in Editors /\ cfg.fault # "none"

\* the toggle keys of element e are bound
C36_Bound(e) ==
    /\ ~extraKeys[e].null
    /\ ToggleKeys \subseteq DOMAIN extraKeys[e].keys
    /\ \A k \in ToggleKeys :
         extraKeys[e].keys[k] \in {toggleFn, CommandName("toggleComment")}

\* C36 as stated: after a call of configureCodeMirrorInstance in which the
\* read or the write of extraKeys threw, the error is logged, the call has
\* returned false, the element is not marked as configured and its key map
\* is the one it had before the call
C36_Original ==
    C36_Threw =>
        /\ cfg.logged /\ ConfigureError \in errors
        /\ cfg.returned = "false"
        /\ cfg.element \notin configured
        /\ extraKeys[cfg.element] = cfg.before

\* C36, amended: after a call in which an access to extraKeys threw, the
\* error is logged; the self-contained version has returned false, the
\* version of assets/js/thebe-config.js undefined; unless the throw came
\* from the verifying read, the element is not marked as configured; and
\* unless the editor had stored the new key map before setOption threw, or
\* the throw came from the verifying read, the key map is the one before the
\* call. After a call without a throw the element is marked and its toggle
\* keys are bound, also when earlier calls threw.
C36_FailureLeavesUnmarked ==
    /\ C36_Threw =>
         /\ cfg.logged /\ ConfigureError \in errors
         /\ cfg.returned = (IF script = "selfContained" THEN "false"
                            ELSE "undefined")
         /\ cfg.fault # "verify" => cfg.element \notin configured
         /\ cfg.fault \in {"getOption", "setOptionBefore"} =>
              extraKeys[cfg.element] = cfg.before
    /\ (cfg.element \in Editors /\ cfg.fault = "none") =>
         /\ cfg.element \in configured
         /\ C36_Bound(cfg.element)
         /\ ~cfg.logged

\* a call for an element threw in setOption, and the element is still
\* unmarked with its key map as before
C36_Witness ==
    /\ cfg.element \in Editors
    /\ cfg.fault = "setOptionBefore"
    /\ cfg.element \notin configured
    /\ extraKeys[cfg.element] = cfg.before
    /\ cfg.logged

\* a call without a throw has configured an element after an earlier call
\* for it had thrown
C36_Retried ==
    /\ cfg.element \in Editors
    /\ cfg.fault = "none"
    /\ ConfigureError \in errors
    /\ cfg.element \in configured
    /\ Cardinality(inDom) = 1

\* ---------------------------------------------------------------------
\* The navbar element: the responsive status text and the scroll classes
\* ---------------------------------------------------------------------

\* the character U+2026 that marks a cut text
Ellipsis == "ellipsis"

StatusLabel == <<"S", "t", "a", "t", "u", "s", ":">>

\* texts the status widget of the library can show
StatusTexts ==
    { <<>>,
      <<"S", "t", "a", "t", "u", "s", ":", " ", "r", "e", "a", "d", "y">>,
      <<"S", "t", "a", "t", "u", "s", ":", " ", "s", "e", "r", "v", "e", "r", "-", "c", "o", "n", "n", "e", "c", "t", "i", "n", "g">>,
      <<"l", "a", "u", "n", "c", "h", "i", "n", "g">> }

\* window.innerWidth: one width for each branch of
\* updateResponsiveStatusText
Widths == {400, 700, 1000, 1300}

\* text.length > max ? text.substring(0, max) + '…' : text
truncate(text, max) ==
    IF Len(text) > max THEN SubSeq(text, 1, max) \o <<Ellipsis>> ELSE text

\* text.indexOf(sub), for a text that includes sub
indexOf(text, sub) ==
    CHOOSE i \in 0..(Len(text) - Len(sub)) :
        /\ SubSeq(text, i + 1, i + Len(sub)) = sub
        /\ \A j \in 0..(i - 1) : SubSeq(text, j + 1, j + Len(sub)) # sub

\* originalText.split('Status:')[1]?.trim() || originalText, for a text
\* that includes 'Status:'
statusValue(originalText) ==
    LET rest == Slice(originalText,
                      indexOf(originalText, StatusLabel) + Len(StatusLabel))
        piece == IF includes(rest, StatusLabel)
                 THEN SubSeq(rest, 1, indexOf(rest, StatusLabel))
                 ELSE rest
    IN  IF Trim(piece) = <<>> THEN originalText ELSE Trim(piece)

\* newText of updateResponsiveStatusText
responsiveText(originalText, width) ==
    IF width <= 480
    THEN IF includes(originalText, StatusLabel)
         THEN truncate(statusValue(originalText), 8)
         ELSE truncate(originalText, 8)
    ELSE IF width <= 768
    THEN IF includes(originalText, StatusLabel)
         THEN truncate(statusValue(originalText), 12)
         ELSE truncate(originalText, 12)
    ELSE IF width <= 1024
    THEN truncate(originalText, 20)
    ELSE originalText

\* updateResponsiveStatusText(): dataset.originalText is written when it is
\* empty, and the text is computed from it
updateResponsiveStatusText(b) ==
    IF ~b.widget THEN b
    ELSE LET originalText == IF b.originalText = <<>> THEN Trim(b.text)
                             ELSE b.originalText
         IN  IF originalText = <<>> THEN b
             ELSE [b EXCEPT !.originalText = originalText,
                            !.text = responsiveText(originalText, b.width)]

\* CONFIG.tolerance: pixels of scroll before the classes are updated
Tolerance == 5

\* how far the page scrolls at most
MaxScrollY == 12

\* document.body.scrollHeight - window.innerHeight: a page that does not
\* scroll, a short one and the longest
MaxScrolls == {0, 8, MaxScrollY}

\* Math.abs(a - b)
AbsDiff(a, b) == IF a > b THEN a - b ELSE b - a

\* classList.toggle(name, force)
toggle(classes, name, force) ==
    IF force THEN classes \cup {name} ELSE classes \ {name}

\* updateNavbarClasses as it would be if it never removed headroom--unpinned
updateNavbarClasses_KeepUnpinned(b, scrollY, direction) ==
    LET isTop == scrollY <= Tolerance
        isBottom == scrollY >= b.maxScroll - Tolerance
        shouldPin == direction = "up" \/ isTop
        c1 == toggle(b.classes, "headroom--top", isTop)
        c2 == toggle(c1, "headroom--not-top", ~isTop)
        c3 == toggle(c2, "headroom--bottom", isBottom)
        c4 == toggle(c3, "headroom--not-bottom", ~isBottom)
        c5 == toggle(c4, "headroom--pinned", shouldPin)
    IN  [b EXCEPT !.classes = IF ~shouldPin /\ ~isTop
                              THEN c5 \cup {"headroom--unpinned"} ELSE c5]

\* updateNavbarClasses(scrollY, direction)
updateNavbarClasses(b, scrollY, direction) ==
    LET isTop == scrollY <= Tolerance
        isBottom == scrollY >= b.maxScroll - Tolerance
        shouldPin == direction = "up" \/ isTop
        c1 == toggle(b.classes, "headroom--top", isTop)
        c2 == toggle(c1, "headroom--not-top", ~isTop)
        c3 == toggle(c2, "headroom--bottom", isBottom)
        c4 == toggle(c3, "headroom--not-bottom", ~isBottom)
        c5 == toggle(c4, "headroom--pinned", shouldPin)
    IN  [b EXCEPT !.classes = toggle(c5, "headroom--unpinned",
                                     ~shouldPin /\ ~isTop)]

\* updateScrollPosition()
updateScrollPosition(b) ==
    LET currentScrollY == b.scrollY
        scrollDelta == AbsDiff(currentScrollY, b.lastScrollY)
    IN  IF scrollDelta >= Tolerance
        THEN [updateNavbarClasses(b, currentScrollY,
                                  IF currentScrollY > b.lastScrollY
                                  THEN "down" ELSE "up")
                 EXCEPT !.lastScrollY = currentScrollY]
        ELSE b

BarFrame == UNCHANGED <<editorVars, installed, pageVars, bootCore, act, cfg>>

\* the window scrolls to y: handleScroll cancels the pending animation frame
\* and requests a new one
Scroll(y) ==
    /\ y \in 0..bar.maxScroll
    /\ y # bar.scrollY
    /\ bar' = [bar EXCEPT !.scrollY = y, !.scrollRAF = TRUE]
    /\ BarFrame

\* the animation frame that handleScroll has requested
AnimationFrame ==
    /\ bar.scrollRAF
    /\ bar' = [updateScrollPosition(bar) EXCEPT !.scrollRAF = FALSE]
    /\ BarFrame

\* handleResize: the window has a new width and the page a new scroll range
\* that holds the scroll position
Resize(width, maxScroll) ==
    /\ maxScroll >= bar.scrollY
    /\ <<width, maxScroll>> # <<bar.width, bar.maxScroll>>
    /\ bar' = updateResponsiveStatusText(
                  updateScrollPosition([bar EXCEPT !.width = width,
                                                   !.maxScroll = maxScroll]))
    /\ BarFrame

\* attemptMove has put the status widget into the navbar and calls
\* updateResponsiveStatusText
StatusMoved ==
    /\ ~bar.widget
    /\ bar' = updateResponsiveStatusText([bar EXCEPT !.widget = TRUE])
    /\ BarFrame

\* the library writes a new status text into its widget
StatusTextUpdate(t) ==
    /\ t # bar.status
    /\ bar' = [bar EXCEPT !.text = t, !.status = t]
    /\ BarFrame

\* the navbar when its constructor has run: init() has called
\* updateScrollPosition at the scroll position of the loaded page
InitBar ==
    /\ lines = << <<>> >>
    /\ sels = <<[anchor |-> Pos(0, 0), head |-> Pos(0, 0)]>>
    /\ mode = PythonMode
    /\ orig = [lines |-> lines, sels |-> sels]
    /\ pre = orig
    /\ n = 0
    /\ used = <<>>
    /\ installed = "none"
    /\ PageIdle
    /\ BootIdle
    /\ NavbarIdle
    /\ act = IdleAct
    /\ cfg = IdleCfg
    /\ \E width \in Widths, maxScroll \in MaxScrolls, t \in StatusTexts :
         \E y \in 0..maxScroll :
           bar = updateScrollPosition([IdleBar EXCEPT !.width = width,
                                                      !.maxScroll = maxScroll,
                                                      !.scrollY = y,
                                                      !.text = t,
                                                      !.status = t])

NextStatusText ==
    \/ StatusMoved
    \/ \E t \in StatusTexts : StatusTextUpdate(t)
    \/ \E width \in Widths, maxScroll \in MaxScrolls : Resize(width, maxScroll)

SpecStatusText == InitBar /\ [][NextStatusText]_vars

NextScroll ==
    \/ \E y \in 0..MaxScrollY : Scroll(y)
    \/ AnimationFrame
    \/ \E width \in Widths, maxScroll \in MaxScrolls : Resize(width, maxScroll)

SpecScroll == InitBar /\ [][NextScroll]_vars

\* the forms in which the navbar may show the text t
C37_Forms(t) == {t} \cup {responsiveText(Trim(t), width) : width \in Widths}

\* C37: the text of the status widget in the navbar is the most recent
\* status text of the library, in full or cut for some window width, and
\* never a form of an earlier status text
C37_ShowsLatest == bar.widget => bar.text \in C37_Forms(bar.status)

\* what does hold: the widget shows the most recent status text or a form of
\* the text that was stored as originalText at the first update
C37_ShowsStored ==
    bar.widget =>
        \/ bar.text = bar.status
        \/ bar.text \in C37_Forms(bar.originalText)

\* the navbar carries both classes
C38_Both(a, b) == {a, b} \subseteq bar.classes

\* the step has updated the classes: lastScrollY is set to a new position
C38_Updated == bar'.lastScrollY # bar.lastScrollY

\* C38: the navbar never carries both classes of a pair; its classes and
\* lastScrollY change only when the scroll position is at least the
\* tolerance of 5 pixels away from lastScrollY; and an update at a position
\* within the tolerance of the top leaves the navbar pinned
C38_HeadroomClasses ==
    /\ [](/\ ~C38_Both("headroom--pinned", "headroom--unpinned")
          /\ ~C38_Both("headroom--top", "headroom--not-top")
          /\ ~C38_Both("headroom--bottom", "headroom--not-bottom"))
    /\ [][(bar'.classes # bar.classes \/ C38_Updated) =>
            AbsDiff(bar'.scrollY, bar.lastScrollY) >= Tolerance]_vars
    /\ [][(C38_Updated /\ bar'.scrollY <= Tolerance) =>
            /\ "headroom--pinned" \in bar'.classes
            /\ "headroom--unpinned" \notin bar'.classes]_vars

\* the navbar has been unpinned by a scroll down and is pinned again by a
\* scroll up to the top
C38_Witness ==
    /\ bar.lastScrollY = 0
    /\ bar.scrollY = 0
    /\ "headroom--pinned" \in bar.classes
    /\ "headroom--top" \in bar.classes
    /\ "headroom--not-bottom" \in bar.classes

====
